---- MODULE Spec2Model ----
(***************************************************************************)
(* Vehicle passport service: canonicalize / hash / sign / verify sealing   *)
(* pipeline, the DevStorage record store and the HTTP routes that mutate   *)
(* it, and the local sealing command line tools.                           *)
(*                                                                         *)
(* JSON values are tagged records [t, v].  Objects keep their key          *)
(* insertion order (a sequence of [k, v] entries); properties whose value  *)
(* is undefined are not represented, as JSON.stringify drops them.         *)
(* Strings are sequences of one-character strings.  Numbers are fixed      *)
(* point: [m, e] stands for m/1000 + e/10000 with e a single digit.        *)
(* SHA-256 is modelled as collision free and signatures as unforgeable.    *)
(***************************************************************************)
EXTENDS Integers, Sequences, FiniteSets, TLC

\* ------------------------------------------------------------------------
\* JSON values
\* ------------------------------------------------------------------------
\* Math.round(value * 1000) / 1000: numbers are kept to a thousandth
Milli == 1000
Undef == [t |-> "undef", v |-> 0]
Null == [t |-> "null", v |-> 0]
Str(s) == [t |-> "str", v |-> s]
Num(m, e) == [t |-> "num", v |-> [m |-> m, e |-> e]]
IntNum(n) == Num(n * Milli, 0)
Bool(b) == [t |-> "bool", v |-> b]
Arr(a) == [t |-> "arr", v |-> a]
\* a sequence given element by element, as a tuple
Tuple(f) == f \o <<>>
Obj(kv) == [t |-> "obj", v |-> kv]
KV(k, v) == [k |-> k, v |-> v]
EmptyObj == Obj(<<>>)

IsObj(x) == x.t = "obj"
IsStr(x) == x.t = "str"

KeysOf(o) == Tuple([i \in 1..Len(o.v) |-> o.v[i].k])
Has(o, k) == IsObj(o) /\ \E i \in 1..Len(o.v) : o.v[i].k = k
\* property read: o[k], undefined when absent (or when o is not an object)
Get(o, k) ==
  IF Has(o, k) THEN o.v[CHOOSE i \in 1..Len(o.v) : o.v[i].k = k].v ELSE Undef
\* property assignment o[k] = v: an existing key keeps its position
Put(o, k, v) ==
  IF v = Undef THEN o
  ELSE IF Has(o, k)
       THEN Obj(Tuple([i \in 1..Len(o.v) |-> IF o.v[i].k = k THEN KV(k, v) ELSE o.v[i]]))
       ELSE Obj(Append(o.v, KV(k, v)))
\* delete o[k]
Del(o, k) == Obj(SelectSeq(o.v, LAMBDA e : e.k # k))
Path(o, k1, k2) == Get(Get(o, k1), k2)

\* ------------------------------------------------------------------------
\* Canonical JSON
\* ------------------------------------------------------------------------
\* every property name the program writes, in the order Array.prototype.sort
\* puts them (UTF-16 code units)
KeyOrder ==
  << "batteryCapacityKwh", "brakes", "capabilities", "captured_by",
     "captured_ts", "code", "codes", "dekra", "detection",
     "detectionConfidence", "dtc", "ev", "fl", "fr", "front_pct", "h", "hash",
     "images", "inspection_ts", "isElectric", "items", "key_id", "km",
     "lot_id", "manual", "obd_ev_pids", "object_key", "odometer",
     "provenance", "rear_pct", "remarks", "required", "rl", "role", "rr",
     "seal", "sealed_ts", "sha256", "sig", "site", "smartcar_oauth", "source",
     "status", "ts", "tyres_mm", "url", "vin", "w" >>
KeyRank == [k \in {KeyOrder[i] : i \in 1..Len(KeyOrder)} |->
              CHOOSE i \in 1..Len(KeyOrder) : KeyOrder[i] = k]
KeyLess(a, b) == KeyRank[a] < KeyRank[b]

\* Object.keys(input).sort(): the entries of an object ordered by key
SortEntries(kv) ==
  LET ranks == {KeyRank[kv[i].k] : i \in 1..Len(kv)}
      ordered == SelectSeq(KeyOrder, LAMBDA k : KeyRank[k] \in ranks)
  IN Tuple([i \in 1..Len(ordered) |->
              kv[CHOOSE j \in 1..Len(kv) : kv[j].k = ordered[i]]])

\* variant: only the properties of the value itself are sorted
sortKeysShallow(input) == IF input.t = "obj" THEN Obj(SortEntries(input.v)) ELSE input
RECURSIVE sortKeys(_)
sortKeys(input) ==
  IF input.t = "arr" THEN Arr(Tuple([i \in 1..Len(input.v) |-> sortKeys(input.v[i])]))
  ELSE IF input.t = "obj"
       THEN LET s == SortEntries(input.v)
            IN Obj(Tuple([i \in 1..Len(s) |-> KV(s[i].k, sortKeys(s[i].v))]))
       ELSE input

\* String.prototype.trim
RECURSIVE TrimLeft(_)
TrimLeft(s) == IF Len(s) > 0 /\ Head(s) = " " THEN TrimLeft(Tail(s)) ELSE s
RECURSIVE TrimRight(_)
TrimRight(s) ==
  IF Len(s) > 0 /\ s[Len(s)] = " " THEN TrimRight(SubSeq(s, 1, Len(s) - 1)) ELSE s
Trim(s) == TrimRight(TrimLeft(s))

\* Math.round(value * 1000) / 1000 on a fixed point number
RoundMilli(n) == [m |-> n.m + (IF n.e >= 5 THEN 1 ELSE 0), e |-> 0]

replacer(value) ==
  IF value.t = "num" THEN [t |-> "num", v |-> RoundMilli(value.v)]
  ELSE IF value.t = "str" THEN Str(Trim(value.v))
  ELSE value

\* decimal rendering of numbers, as JSON.stringify prints them
DigitChars == <<"0", "1", "2", "3", "4", "5", "6", "7", "8", "9">>
RECURSIVE NatChars(_)
NatChars(n) ==
  IF n < 10 THEN <<DigitChars[n + 1]>>
  ELSE NatChars(n \div 10) \o <<DigitChars[(n % 10) + 1]>>
RECURSIVE StripZeros(_)
StripZeros(s) ==
  IF Len(s) > 0 /\ s[Len(s)] = "0" THEN StripZeros(SubSeq(s, 1, Len(s) - 1)) ELSE s
NumChars(n) ==
  LET a == IF n.m < 0 THEN 0 - n.m ELSE n.m
      frac == a % Milli
      fracChars == StripZeros(<< DigitChars[(frac \div 100) + 1],
                                 DigitChars[((frac \div 10) % 10) + 1],
                                 DigitChars[(frac % 10) + 1],
                                 DigitChars[n.e + 1] >>)
  IN (IF n.m < 0 THEN <<"-">> ELSE <<>>)
     \o NatChars(a \div Milli)
     \o (IF Len(fracChars) = 0 THEN <<>> ELSE <<".">> \o fracChars)

\* JSON.stringify(value) and, with useReplacer, JSON.stringify(value, replacer):
\* the serialized text as a sequence of characters (property names are
\* single tokens; a digest or a signature is the quoted text of its value)
RECURSIVE Stringify(_, _)
RECURSIVE StringifyItems(_, _)
RECURSIVE StringifyEntries(_, _)
Stringify(value, useReplacer) ==
  LET x == IF useReplacer THEN replacer(value) ELSE value
  IN CASE x.t = "null" -> <<"null">>
       [] x.t = "bool" -> IF x.v THEN <<"true">> ELSE <<"false">>
       [] x.t = "num" -> NumChars(x.v)
       [] x.t = "str" -> <<"\"">> \o x.v \o <<"\"">>
       [] x.t = "arr" -> <<"[">> \o StringifyItems(x.v, useReplacer) \o <<"]">>
       [] x.t = "obj" -> <<"{">> \o StringifyEntries(x.v, useReplacer) \o <<"}">>
       [] x.t = "sha256" -> <<"\"", "sha256:">> \o x.v \o <<"\"">>
       [] x.t = "sig" -> <<"\"", "sig:", x.v.key, ":">> \o NatChars(x.v.nonce)
                         \o <<":">> \o x.v.msg \o <<"\"">>
StringifyItems(a, useReplacer) ==
  IF Len(a) = 0 THEN <<>>
  ELSE Stringify(a[1], useReplacer)
       \o (IF Len(a) > 1 THEN <<",">> ELSE <<>>)
       \o StringifyItems(Tail(a), useReplacer)
StringifyEntries(kv, useReplacer) ==
  IF Len(kv) = 0 THEN <<>>
  ELSE <<"\"", kv[1].k, "\"", ":">> \o Stringify(kv[1].v, useReplacer)
       \o (IF Len(kv) > 1 THEN <<",">> ELSE <<>>)
       \o StringifyEntries(Tail(kv), useReplacer)

\* utils/canonical.ts: sorted keys, numbers rounded, strings trimmed
canonicalizeLib(obj) == Stringify(sortKeys(obj), TRUE)
\* variant: properties are left in insertion order
canonicalizeAsInserted(input) == input
\* server/app.ts: sorted keys only
canonicalize(input) == sortKeys(input)
\* variant: the server serializes with the library's replacer
canonicalBytesNormalized(obj) == Stringify(canonicalize(obj), TRUE)
canonicalBytes(obj) == Stringify(canonicalize(obj), FALSE)
\* both sha256Hex functions
sha256Hex(buf) == [t |-> "sha256", v |-> buf]

\* ------------------------------------------------------------------------
\* Keys and signatures
\* ------------------------------------------------------------------------
\* key material is opaque: "" is "not configured"; the public key "pub:k"
\* is the one that corresponds to the private key "k"
NoKey == ""
PrivateKeys == {"k1", "k2"}
PublicOf(priv) == IF priv = "k1" THEN "pub:k1" ELSE "pub:k2"
PublicKeys == {PublicOf(k) : k \in PrivateKeys}

\* a signature (its base64 text) over buf made with priv; nonce is the
\* randomness of the signing algorithm (none for RSA PKCS#1 v1.5)
SigValue(priv, buf, nonce) ==
  [t |-> "sig", v |-> [key |-> priv, msg |-> buf, nonce |-> nonce]]
\* the cryptographic check itself: the signature was made over buf by the
\* private key that pub belongs to (anything else, garbage included, fails)
SigMatches(buf, sig, pub) ==
  /\ sig.t = "sig"
  /\ PublicOf(sig.v.key) = pub
  /\ sig.v.msg = buf
\* JavaScript truthiness of seal.sig
Truthy(x) ==
  /\ x.t \notin {"undef", "null"}
  /\ x # Str(<<>>)
  /\ x # Bool(FALSE)

signBytesRS256(buf, PRIVATE_KEY_PEM) ==
  IF PRIVATE_KEY_PEM = NoKey THEN Null ELSE SigValue(PRIVATE_KEY_PEM, buf, 0)

\* null (no key configured), true or false
verifyBytesRS256(buf, b64sig, PUBLIC_KEY_PEM) ==
  IF PUBLIC_KEY_PEM = NoKey THEN Null
  ELSE Bool(SigMatches(buf, b64sig, PUBLIC_KEY_PEM))

ecdsaSignBase64DER(contentUtf8, privateKeyPem, nonce) ==
  SigValue(privateKeyPem, contentUtf8, nonce)
ecdsaVerifyBase64DER(contentUtf8, signatureB64, publicKeyPem) ==
  SigMatches(contentUtf8, signatureB64, publicKeyPem)

\* ------------------------------------------------------------------------
\* Schema validation (passportDraft.schema.json / passportSealed.schema.json)
\* ------------------------------------------------------------------------
VinAlphabet ==
  { "A", "B", "C", "D", "E", "F", "G", "H", "J", "K", "L", "M", "N", "P", "R",
    "S", "T", "U", "V", "W", "X", "Y", "Z",
    "0", "1", "2", "3", "4", "5", "6", "7", "8", "9" }
HexDigits ==
  { "0", "1", "2", "3", "4", "5", "6", "7", "8", "9", "A", "B", "C", "D", "E", "F" }
VinLength == 17
TyreMaxMm == 20
DraftFields ==
  { "vin", "lot_id", "dekra", "odometer", "tyres_mm", "brakes", "dtc", "ev",
    "images", "provenance", "remarks" }
TyreKeys == <<"fl", "fr", "rl", "rr">>

VinPatternOk(x) ==
  /\ IsStr(x)
  /\ Len(x.v) = VinLength
  /\ \A i \in 1..Len(x.v) : x.v[i] \in VinAlphabet
TyreOk(x) ==
  \/ x.t \in {"undef", "null"}
  \/ /\ x.t = "num"
     /\ x.v.m >= 0
     /\ x.v.m * 10 + x.v.e <= TyreMaxMm * Milli * 10
DtcCodeOk(x) ==
  /\ IsStr(x)
  /\ Len(x.v) = 5
  /\ x.v[1] \in {"P", "C", "B", "U"}
  /\ \A i \in 2..5 : x.v[i] \in HexDigits
DtcCodesOk(d) ==
  LET codes == Path(d, "dtc", "codes")
  IN codes.t = "arr" => \A i \in 1..Len(codes.v) : DtcCodeOk(Get(codes.v[i], "code"))

\* validateDraft.errors: the violated constraints
DraftErrors(d) ==
  IF ~IsObj(d) THEN {"type"}
  ELSE (IF VinPatternOk(Get(d, "vin")) THEN {} ELSE {"vin"})
       \cup (IF IsStr(Get(d, "lot_id")) THEN {} ELSE {"lot_id"})
       \cup (IF \A i \in 1..Len(TyreKeys) : TyreOk(Path(d, "tyres_mm", TyreKeys[i]))
             THEN {} ELSE {"tyres_mm"})
       \cup (IF DtcCodesOk(d) THEN {} ELSE {"dtc"})
       \cup (IF \A i \in 1..Len(d.v) : d.v[i].k \in DraftFields
             THEN {} ELSE {"unknown_field"})
validateDraft(d) == DraftErrors(d) = {}

SealBlockOk(seal) ==
  /\ IsObj(seal)
  /\ Get(seal, "hash").t = "sha256"
  /\ Get(seal, "sig").t \in {"str", "sig"}
  /\ IsStr(Get(seal, "key_id"))
  /\ IsStr(Get(seal, "sealed_ts"))
SealedErrors(s) ==
  IF ~IsObj(s) THEN {"type"}
  ELSE DraftErrors(Del(s, "seal"))
       \cup (IF SealBlockOk(Get(s, "seal")) THEN {} ELSE {"seal"})
validateSealed(s) == SealedErrors(s) = {}

\* ------------------------------------------------------------------------
\* crypto/sealer-local.ts
\* ------------------------------------------------------------------------
\* String.prototype.replace("Z", "+02:00"): the first occurrence only
ReplaceZ(s) ==
  IF \E i \in 1..Len(s) : s[i] = "Z"
  THEN LET i == CHOOSE j \in 1..Len(s) :
                  s[j] = "Z" /\ \A l \in 1..(j - 1) : s[l] # "Z"
       IN Tuple([j \in 1..Len(s) |-> IF j = i THEN "+02:00" ELSE s[j]])
  ELSE s

DefaultKeyId == <<"local-ec-p256-v1">>

\* the payload sealPassportDraft hashes and signs
SealPayloadLib(draft) == canonicalizeLib(draft)

\* returns [ok, sealed] or, when it throws, [ok |-> FALSE, errors]
sealPassportDraft(draft, privateKeyPem, keyId, sealedAtIso, nonce) ==
  IF ~validateDraft(draft)
  THEN [ok |-> FALSE, errors |-> DraftErrors(draft), sealed |-> Undef]
  ELSE LET canonical == SealPayloadLib(draft)
           hashHex == sha256Hex(canonical)
           sigB64 == ecdsaSignBase64DER(canonical, privateKeyPem, nonce)
           sealed_ts == ReplaceZ(sealedAtIso)
       IN [ ok |-> TRUE,
            errors |-> {},
            sealed |-> Put(draft, "seal",
                         Obj(<< KV("hash", hashHex),
                                KV("sig", sigB64),
                                KV("key_id", Str(IF keyId = <<>> THEN DefaultKeyId ELSE keyId)),
                                KV("sealed_ts", Str(sealed_ts)) >>)) ]

\* the payload verifySealedPassport recomputes
VerifyPayloadLib(sealed) == canonicalizeLib(Del(sealed, "seal"))

verifySealedPassport(sealed, publicKeyPem) ==
  LET seal == Get(sealed, "seal")
      canonical == VerifyPayloadLib(sealed)
      hashHex == sha256Hex(canonical)
  IN IF ~Truthy(seal) \/ Get(seal, "sig").t \notin {"str", "sig"}
        \/ Get(seal, "hash").t \notin {"str", "sha256"}
     THEN [valid |-> FALSE, reasons |-> <<"missing seal fields">>]
     ELSE LET r1 == IF hashHex # Get(seal, "hash") THEN <<"hash mismatch">> ELSE <<>>
              sigOk == ecdsaVerifyBase64DER(canonical, Get(seal, "sig"), publicKeyPem)
              r2 == IF ~sigOk THEN <<"signature verify failed">> ELSE <<>>
          IN [valid |-> Len(r1 \o r2) = 0, reasons |-> r1 \o r2]

\* ------------------------------------------------------------------------
\* server/storage.ts
\* ------------------------------------------------------------------------
UpperOf(c) ==
  CASE c = "w" -> "W" [] c = "d" -> "D" [] c = "r" -> "R" [] c = "a" -> "A"
    [] c = "b" -> "B" [] OTHER -> c
AlnumUpper ==
  VinAlphabet \cup {"I", "O", "Q"}

\* (vin || "").toUpperCase().replace(/[^A-Z0-9]/g, "").slice(0, 17)
sanitizeVin(vin) ==
  IF ~IsStr(vin) THEN <<>>
  ELSE LET up == Tuple([i \in 1..Len(vin.v) |-> UpperOf(vin.v[i])])
           kept == SelectSeq(up, LAMBDA c : c \in AlnumUpper)
       IN SubSeq(kept, 1, IF Len(kept) < VinLength THEN Len(kept) ELSE VinLength)

\* variant: the sealed passport is returned as it is
stripSealKept(sealed) == sealed
stripSeal(sealed) == Del(sealed, "seal")

\* JSON.stringify(sortKeys(x)); JSON.stringify(undefined) is undefined,
\* rendered here as the empty text, which no value serializes to
safeStableStringify(x) ==
  IF x = Undef THEN <<>> ELSE Stringify(sortKeys(x), FALSE)
changed(a, b) == safeStableStringify(a) # safeStableStringify(b)

\* nested objects of a passport that some route assigns into in place
MutableNested == {"images", "dekra", "odometer", "ev"}

\* A record of the in-memory map.  `shared` lists the keys k for which
\* draft[k] and sealed[k] are one and the same JavaScript object (the
\* spread {...draft, seal} and the rest pattern {seal, ...rest} copy only
\* the top level).
NoRecord == [present |-> FALSE, draft |-> Undef, sealed |-> Undef, shared |-> {}]
NoFile == [present |-> FALSE, draft |-> Undef, sealed |-> Undef]

\* persist(rec): JSON text of the record written to data/<VIN>.json
FileOf(rec) == [present |-> rec.present, draft |-> rec.draft, sealed |-> rec.sealed]
\* init(): JSON.parse of a file; parsed objects share nothing
LoadFile(f) == [present |-> f.present, draft |-> f.draft, sealed |-> f.sealed, shared |-> {}]

\* upsertDraft on map m.  sameObjs: the keys k of MutableNested for which
\* draft[k] is the very object the stored draft holds under k.
\* Returns the new map; the caller has checked sanitizeVin(draft.vin) # "".
upsertDraft(m, draft, sameObjs) ==
  LET vin == sanitizeVin(Get(draft, "vin"))
      current == m[vin]
      drop == current.sealed # Undef /\ changed(current.draft, draft)
  IN [m EXCEPT ![vin] =
        [ present |-> TRUE,
          draft |-> draft,
          sealed |-> IF drop THEN Undef ELSE current.sealed,
          shared |-> IF drop THEN {} ELSE current.shared \cap sameObjs ]]

\* upsertSealed on map m.  sameObjs: the keys k of MutableNested for which
\* sealed[k] is the very object the stored draft holds under k.
upsertSealed(m, sealed, sameObjs) ==
  LET vin == sanitizeVin(Get(sealed, "vin"))
      current == m[vin]
      derived == current.draft = Undef
  IN [m EXCEPT ![vin] =
        [ present |-> TRUE,
          draft |-> IF derived THEN stripSeal(sealed) ELSE current.draft,
          sealed |-> sealed,
          shared |-> IF derived
                     THEN {k \in MutableNested : IsObj(Get(sealed, k))}
                     ELSE {k \in sameObjs : IsObj(Get(sealed, k))} ]]

\* ------------------------------------------------------------------------
\* State
\* ------------------------------------------------------------------------
VARIABLES
  process,  \* which program runs: "server" (server/app.ts) or "cli" (cli/*.ts)
  env,      \* process environment: PRIVATE_KEY_PEM, PUBLIC_KEY_PEM, S3_BUCKET
  map,      \* DevStorage.map: sanitized VIN -> record
  disk,     \* data/<VIN>.json files: sanitized VIN -> persisted record
  resp,     \* the answer of the last request (or the exit of the last tool run)
  cli,      \* files and key files the command line tools work on
  served,   \* number of requests the server has answered
  scan      \* the text or OCR result handed to an extractor, and what it returned

vars == <<process, env, map, disk, resp, cli, served, scan>>

\* ------------------------------------------------------------------------
\* Inputs
\* ------------------------------------------------------------------------
\* wall clock readings (new Date().toISOString())
Time1 == <<"T", "1", "Z">>
Time2 == <<"T", "2", "Z">>

VinA == <<"W", "D", "D", "2", "0", "4", "0", "0", "8", "2", "R", "0", "8", "8", "8", "6", "6">>
VinB == <<"1", "H", "G", "C", "M", "8", "2", "6", "3", "3", "A", "0", "0", "4", "3", "5", "2">>
VinARaw == <<"w", "d", "d", "-", "2", "0", "4", "0", "0", "8", "2", "r", "0", "8", "8", "8", "6", "6">>
ShortVin == <<"A", "B", "1">>
UnknownVin == <<"U", "N", "K", "N", "O", "W", "N", "V", "I", "N", "0", "0", "0", "0", "0", "0", "0">>
StoreKeys == {VinA, VinB, ShortVin, UnknownVin}

LotDefault == <<"N/A">>
Lot1 == <<"LOT-1">>
Lot2 == <<"LOT-2">>
Url1 == <<"https://", "dekra/1">>

Response(route, vin, status, error) ==
  [ route |-> route, vin |-> vin, status |-> status, error |-> error,
    valid |-> FALSE, reasons |-> <<>>, hash |-> Undef, details |-> {} ]
NoResponse == Response("", <<>>, 0, "")

\* ------------------------------------------------------------------------
\* ingest/dekra/mapper.ts
\* ------------------------------------------------------------------------
\* what the extractors found in a document text
TyreDepths(fl, fr, rl, rr) == [fl |-> fl, fr |-> fr, rl |-> rl, rr |-> rr]
Extracted(vin, km, tyres, dtcStatus, codes) ==
  [vin |-> vin, km |-> km, tyres |-> tyres, dtcStatus |-> dtcStatus, codes |-> codes]
\* a document with the same depth for the four tyres and no fault codes
Extraction(vin, km, tyre, dtcStatus) ==
  Extracted(vin, km, TyreDepths(tyre, tyre, tyre, tyre), dtcStatus, <<>>)
DocA == Extraction(Str(VinA), IntNum(238574), IntNum(25), "green")
DocB == Extraction(Str(VinB), Null, Null, "n/a")
DocNoVin == Extraction(Undef, Null, Null, "n/a")

clampMmUnbounded(n) == IF n.t # "num" THEN Null ELSE n
clampMm(n) ==
  IF n.t # "num" THEN Null
  ELSE IF n.v.m < 0 THEN IntNum(0)
  ELSE IF n.v.m * 10 + n.v.e > TyreMaxMm * Milli * 10 THEN IntNum(TyreMaxMm)
  ELSE n

mapToPassportDraft(ex, lotId, dekraUrl, capturedBy, now) ==
  LET vin == IF Truthy(ex.vin) THEN ex.vin ELSE Str(UnknownVin)
      url == IF IsStr(dekraUrl) /\ Len(dekraUrl.v) > 0
                /\ dekraUrl.v[1] \in {"http://", "https://"}
             THEN dekraUrl ELSE Undef
      tyres == Obj(<< KV("fl", clampMm(ex.tyres.fl)), KV("fr", clampMm(ex.tyres.fr)),
                      KV("rl", clampMm(ex.tyres.rl)), KV("rr", clampMm(ex.tyres.rr)) >>)
      dtc == IF ex.dtcStatus = "n/a" /\ Len(ex.codes) = 0 THEN Undef
             ELSE Obj(<< KV("status", Str(<<ex.dtcStatus>>)),
                         KV("codes", Arr(Tuple([i \in 1..Len(ex.codes) |->
                                                  Obj(<<KV("code", Str(ex.codes[i]))>>)]))) >>)
      d1 == Obj(<< KV("vin", vin),
                   KV("lot_id", IF Truthy(lotId) THEN lotId ELSE Str(LotDefault)),
                   KV("dekra", Put(EmptyObj, "url", url)),
                   KV("odometer",
                      Obj(<< KV("km", ex.km),
                             KV("source", Str(IF ex.km.t = "num" THEN <<"DEKRA">> ELSE <<"n/a">>)) >>)),
                   KV("tyres_mm", tyres),
                   KV("brakes", Obj(<< KV("front_pct", Null), KV("rear_pct", Null) >>)) >>)
  IN Put(Put(d1, "dtc", dtc),
         "provenance",
         Obj(<< KV("captured_by", IF Truthy(capturedBy) THEN capturedBy ELSE Str(<<"system">>)),
                KV("ts", Str(now)) >>))

IngestOpt(lot, url) == [lot_id |-> lot, dekra_url |-> url]

\* ------------------------------------------------------------------------
\* server/app.ts routes
\* ------------------------------------------------------------------------
Persist(m, vin) == [disk EXCEPT ![vin] = FileOf(m[vin])]

\* variant: the parsed VIN is not compared with the expected one
IngestDekraUnchecked(hasText, ex, opt, expectedRaw, now) ==
  LET draft == mapToPassportDraft(ex, opt.lot_id, opt.dekra_url, Undef, now)
      parsedVin == sanitizeVin(Get(draft, "vin"))
      m == upsertDraft(map, draft, {})
  IN /\ process = "server"
     /\ hasText /\ validateDraft(draft)
     /\ map' = m
     /\ disk' = Persist(m, parsedVin)
     /\ resp' = Response("ingest", parsedVin, 200, "")
     /\ UNCHANGED <<process, env, cli>>
\* POST /ingest/dekra.  hasText: a PDF or text of at least 10 characters
IngestDekra(hasText, ex, opt, expectedRaw, now) ==
  LET expectedVin == sanitizeVin(expectedRaw)
      draft == mapToPassportDraft(ex, opt.lot_id, opt.dekra_url, Undef, now)
      parsedVin == sanitizeVin(Get(draft, "vin"))
  IN /\ process = "server"
     /\ IF ~hasText
        THEN /\ resp' = Response("ingest", expectedVin, 400, "no_pdf_or_text")
             /\ UNCHANGED <<map, disk>>
        ELSE IF expectedVin # <<>> /\ parsedVin # expectedVin
        THEN /\ resp' = Response("ingest", expectedVin, 409, "vin_mismatch")
             /\ UNCHANGED <<map, disk>>
        ELSE IF ~validateDraft(draft)
        THEN /\ resp' = [Response("ingest", parsedVin, 422, "schema_invalid")
                           EXCEPT !.details = DraftErrors(draft)]
             /\ UNCHANGED <<map, disk>>
        ELSE LET m == upsertDraft(map, draft, {})
             IN /\ map' = m
                /\ disk' = Persist(m, parsedVin)
                /\ resp' = Response("ingest", parsedVin, 200, "")
     /\ UNCHANGED <<process, env, cli>>

KeyIdServer == <<"local-dev">>

\* the bytes POST /passports/seal and /passports/seal/strict hash and sign
SealPayload(draft) == canonicalBytes(Del(draft, "seal"))

\* variant: the sealed passport is stored without being validated
SealStoredUnvalidated(route, vin, now) ==
  LET rec == map[vin]
      bytes == SealPayload(rec.draft)
      hash == sha256Hex(bytes)
      sig == signBytesRS256(bytes, env.PRIVATE_KEY_PEM)
      sealed == Put(rec.draft, "seal",
                    Obj(<< KV("hash", hash),
                           KV("sig", IF Truthy(sig) THEN sig ELSE Str(<<>>)),
                           KV("key_id", Str(KeyIdServer)),
                           KV("sealed_ts", Str(now)) >>))
      m == upsertSealed(map, sealed, MutableNested)
  IN /\ map' = m
     /\ disk' = Persist(m, vin)
     /\ resp' = [Response(route, vin, 200, "") EXCEPT !.hash = hash]
\* the common tail of both seal routes, from `const payload = ...` on
SealStored(route, vin, now) ==
  LET rec == map[vin]
      bytes == SealPayload(rec.draft)
      hash == sha256Hex(bytes)
      sig == signBytesRS256(bytes, env.PRIVATE_KEY_PEM)
      sealed == Put(rec.draft, "seal",
                    Obj(<< KV("hash", hash),
                           KV("sig", IF Truthy(sig) THEN sig ELSE Str(<<>>)),
                           KV("key_id", Str(KeyIdServer)),
                           KV("sealed_ts", Str(now)) >>))
  IN IF ~validateSealed(sealed)
     THEN /\ resp' = [Response(route, vin, 422, "sealed_schema_invalid")
                        EXCEPT !.details = SealedErrors(sealed)]
          /\ UNCHANGED <<map, disk>>
     ELSE LET m == upsertSealed(map, sealed, MutableNested)
          IN /\ map' = m
             /\ disk' = Persist(m, vin)
             /\ resp' = [Response(route, vin, 200, "") EXCEPT !.hash = hash]

\* POST /passports/seal
Seal(vinRaw, now) ==
  LET vin == sanitizeVin(vinRaw)
  IN /\ process = "server"
     /\ IF vin = <<>>
        THEN /\ resp' = Response("seal", vin, 400, "vin_required")
             /\ UNCHANGED <<map, disk>>
        ELSE IF ~Truthy(map[vin].draft)
        THEN /\ resp' = Response("seal", vin, 404, "draft_not_found")
             /\ UNCHANGED <<map, disk>>
        ELSE SealStored("seal", vin, now)
     /\ UNCHANGED <<process, env, cli>>

\* variant: the seal block is left in the bytes that are hashed
VerifyPayloadWithSeal(sealed) == canonicalBytes(sealed)
\* the bytes GET /verify hashes
VerifyPayload(sealed) == canonicalBytes(Del(sealed, "seal"))

\* variant: valid follows the hash alone
VerifyBodyHashOnly(sealed, PUBLIC_KEY_PEM) ==
  LET hashExpected == sha256Hex(VerifyPayload(sealed))
      hashOk == Path(sealed, "seal", "hash") = hashExpected
  IN [ valid |-> hashOk,
       reasons |-> IF hashOk THEN <<>> ELSE <<"hash_mismatch">>,
       hash |-> hashExpected ]
\* the body GET /verify answers for a stored sealed passport
VerifyBody(sealed, PUBLIC_KEY_PEM) ==
  LET bytes == VerifyPayload(sealed)
      hashExpected == sha256Hex(bytes)
      sealHash == Path(sealed, "seal", "hash")
      sealSig == Path(sealed, "seal", "sig")
      hashOk == (IF Truthy(sealHash) THEN sealHash ELSE Str(<<>>)) = hashExpected
      r1 == IF ~hashOk THEN <<"hash_mismatch">> ELSE <<>>
      sigOk == IF Truthy(sealSig) THEN verifyBytesRS256(bytes, sealSig, PUBLIC_KEY_PEM)
               ELSE Null
      r2 == IF Truthy(sealSig)
            THEN (IF sigOk = Bool(FALSE) THEN <<"signature_invalid">> ELSE <<>>)
                 \o (IF sigOk = Null THEN <<"no_public_key_configured">> ELSE <<>>)
            ELSE <<"no_signature_present">>
  IN [valid |-> hashOk /\ sigOk # Bool(FALSE), reasons |-> r1 \o r2, hash |-> hashExpected]

\* variant: a sealed copy that fails verification is dropped from the record
VerifyDropsInvalid(vinRaw) ==
  LET vin == sanitizeVin(vinRaw)
      b == VerifyBody(map[vin].sealed, env.PUBLIC_KEY_PEM)
  IN /\ process = "server"
     /\ vin # <<>> /\ Truthy(map[vin].sealed)
     /\ resp' = [Response("verify", vin, 200, "")
                   EXCEPT !.valid = b.valid, !.reasons = b.reasons, !.hash = b.hash]
     /\ map' = IF b.valid THEN map
               ELSE [map EXCEPT ![vin].sealed = Undef, ![vin].shared = {}]
     /\ disk' = disk
     /\ UNCHANGED <<process, env, cli>>
\* GET /verify
Verify(vinRaw) ==
  LET vin == sanitizeVin(vinRaw)
  IN /\ process = "server"
     /\ IF vin = <<>>
        THEN resp' = Response("verify", vin, 400, "vin_required")
        ELSE IF ~Truthy(map[vin].sealed)
        THEN resp' = Response("verify", vin, 404, "sealed_not_found")
        ELSE LET b == VerifyBody(map[vin].sealed, env.PUBLIC_KEY_PEM)
             IN resp' = [Response("verify", vin, 200, "")
                           EXCEPT !.valid = b.valid, !.reasons = b.reasons, !.hash = b.hash]
     /\ UNCHANGED <<map, disk>>
     /\ UNCHANGED <<process, env, cli>>

\* ---- a handler's view of the record it edits ----
\* stored/sealed/shared: the record in the map, which in-place assignments
\* reach; draft: the handler's draft object; same: the keys k for which
\* draft[k] is the very object stored[k]; sameTop: draft is the stored draft
\* object itself, not a copy of it.
Edit(rec, fresh, isCopy) ==
  IF Truthy(rec.draft)
  THEN [ stored |-> rec.draft, sealed |-> rec.sealed, shared |-> rec.shared,
         draft |-> rec.draft,
         same |-> {k \in MutableNested : IsObj(Get(rec.draft, k))},
         sameTop |-> ~isCopy ]
  ELSE [ stored |-> rec.draft, sealed |-> rec.sealed, shared |-> rec.shared,
         draft |-> fresh, same |-> {}, sameTop |-> FALSE ]

\* draft[k] = v, v a primitive or a newly created object
SetTop(w, k, v) ==
  [ w EXCEPT !.draft = Put(@, k, v),
             !.stored = IF w.sameTop THEN Put(@, k, v) ELSE @,
             !.same = IF w.sameTop /\ k \in MutableNested THEN @ \cup {k} ELSE @ \ {k},
             !.shared = IF w.sameTop THEN @ \ {k} ELSE @ ]
\* draft[k] = draft[k] || dflt
EnsureNested(w, k, dflt) ==
  IF Truthy(Get(w.draft, k)) THEN w ELSE SetTop(w, k, dflt)
\* draft[k][f] = v: assigns into the object draft[k], whoever else holds it
SetNested(w, k, f, v) ==
  LET nv == Put(Get(w.draft, k), f, v)
  IN [ w EXCEPT !.draft = Put(@, k, nv),
                !.stored = IF k \in w.same THEN Put(@, k, nv) ELSE @,
                !.sealed = IF k \in w.same /\ k \in w.shared THEN Put(@, k, nv) ELSE @ ]
\* storage.upsertDraft(draft) at the end of a handler
Commit(w, vin) ==
  LET m1 == [map EXCEPT ![vin] = [ present |-> @.present, draft |-> w.stored,
                                   sealed |-> w.sealed, shared |-> w.shared ]]
  IN upsertDraft(m1, w.draft, w.same)

\* detectEVFromVin
EvWmis == {<<"W", "D", "D">>, <<"W", "B", "A">>, <<"J", "Y", "J">>, <<"W", "V", "W">>, <<"L", "G", "X">>}
EvBatteryKwh(wmi) ==
  CASE wmi = <<"W", "D", "D">> -> 80 [] wmi = <<"W", "B", "A">> -> 85
    [] wmi = <<"J", "Y", "J">> -> 75 [] wmi = <<"W", "V", "W">> -> 77 [] OTHER -> 60
EvSmartcar(wmi) == wmi # <<"L", "G", "X">>
detectEVFromVin(vin) ==
  IF Len(vin) # VinLength
  THEN [isElectric |-> FALSE, smartcarCompatible |-> FALSE, batteryEstimateKwh |-> Undef,
        confidence |-> Num(0, 0)]
  ELSE LET wmi == SubSeq(vin, 1, 3)
       IN IF wmi \in EvWmis
          THEN [isElectric |-> TRUE, smartcarCompatible |-> EvSmartcar(wmi),
                batteryEstimateKwh |-> IntNum(EvBatteryKwh(wmi)), confidence |-> Num(700, 0)]
          ELSE [isElectric |-> FALSE, smartcarCompatible |-> FALSE,
                batteryEstimateKwh |-> Undef, confidence |-> Num(0, 0)]

LotInitDefault == <<"WB-POC-001">>
Role1 == <<"dash_odo">>
Role2 == <<"tyre_fl">>

\* POST /intake/init.  b: the request body
IntakeInit(b) ==
  LET vin == sanitizeVin(b.vin)
      evInfo == detectEVFromVin(vin)
      lotId == IF Truthy(b.lot_id) THEN b.lot_id ELSE Str(LotInitDefault)
      w0 == Edit(map[vin], Obj(<<KV("vin", Str(vin)), KV("lot_id", lotId)>>), TRUE)
      w1 == IF b.required_photos.t = "arr"
            THEN SetNested(EnsureNested(w0, "images", Obj(<<KV("items", Arr(<<>>))>>)),
                           "images", "required", b.required_photos)
            ELSE w0
      w2 == IF IsStr(b.dekra_url)
            THEN SetNested(EnsureNested(w1, "dekra", EmptyObj), "dekra", "url", b.dekra_url)
            ELSE w1
      w3 == IF b.odometer_km.t \notin {"undef", "null"}
            THEN LET wk == SetNested(EnsureNested(w2, "odometer", EmptyObj),
                                     "odometer", "km", b.odometer_km)
                 IN IF IsStr(b.odometer_source)
                    THEN SetNested(wk, "odometer", "source", b.odometer_source)
                    ELSE wk
            ELSE w2
      w4 == EnsureNested(w3, "ev", EmptyObj)
      w5 == IF evInfo.isElectric
            THEN SetNested(
                   SetNested(
                     SetNested(
                       SetNested(w4, "ev", "isElectric", Bool(TRUE)),
                       "ev", "batteryCapacityKwh", evInfo.batteryEstimateKwh),
                     "ev", "capabilities",
                     Obj(<< KV("obd_ev_pids", Bool(TRUE)),
                            KV("smartcar_oauth", Bool(evInfo.smartcarCompatible)),
                            KV("manual", Bool(TRUE)) >>)),
                   "ev", "provenance",
                   Obj(<< KV("detection", Str(<<"vin_heuristic">>)),
                          KV("detectionConfidence", evInfo.confidence) >>))
            ELSE w4
  IN /\ process = "server"
     /\ IF vin = <<>>
        THEN /\ resp' = Response("intake/init", vin, 400, "vin_required")
             /\ UNCHANGED <<map, disk>>
        ELSE LET m == Commit(w5, vin)
             IN /\ map' = m
                /\ disk' = Persist(m, vin)
                /\ resp' = Response("intake/init", vin, 200, "")
     /\ UNCHANGED <<process, env, cli>>

\* POST /intake/seed
IntakeSeed(b) ==
  LET vin == sanitizeVin(b.vin)
      lotId == IF IsStr(b.lot_id) THEN Str(Trim(b.lot_id.v)) ELSE Str(<<>>)
      required == IF b.required_photos.t = "arr" THEN b.required_photos ELSE Arr(<<>>)
      w0 == Edit(map[vin], Obj(<<KV("vin", Str(vin)), KV("lot_id", lotId)>>), FALSE)
      w1 == SetTop(w0, "lot_id", lotId)
      w2 == SetNested(EnsureNested(w1, "images", Obj(<<KV("items", Arr(<<>>))>>)),
                      "images", "required", required)
  IN /\ process = "server"
     /\ IF vin = <<>> \/ lotId.v = <<>> \/ Len(required.v) = 0
        THEN /\ resp' = Response("intake/seed", vin, 400, "vin_lot_and_required_photos_required")
             /\ UNCHANGED <<map, disk>>
        ELSE LET m == Commit(w2, vin)
             IN /\ map' = m
                /\ disk' = Persist(m, vin)
                /\ resp' = Response("intake/seed", vin, 200, "")
     /\ UNCHANGED <<process, env, cli>>

TyreInputMaxMm == 12
validTyre(val) ==
  \/ val = Null
  \/ /\ val.t = "num"
     /\ val.v.m >= 0
     /\ val.v.m * 10 + val.v.e <= TyreInputMaxMm * Milli * 10

\* POST /intake/tyres
IntakeTyres(vinRaw, tyres) ==
  LET vin == sanitizeVin(vinRaw)
      w0 == Edit(map[vin], Obj(<<KV("vin", Str(vin)), KV("lot_id", Str(LotDefault))>>), TRUE)
      w1 == SetTop(w0, "tyres_mm",
                   Obj(<< KV("fl", Get(tyres, "fl")), KV("fr", Get(tyres, "fr")),
                          KV("rl", Get(tyres, "rl")), KV("rr", Get(tyres, "rr")) >>))
  IN /\ process = "server"
     /\ IF vin = <<>>
        THEN /\ resp' = Response("intake/tyres", vin, 400, "vin_required")
             /\ UNCHANGED <<map, disk>>
        ELSE IF ~IsObj(tyres)
        THEN /\ resp' = Response("intake/tyres", vin, 400, "tyres_mm_required")
             /\ UNCHANGED <<map, disk>>
        ELSE IF \E i \in 1..Len(TyreKeys) : ~validTyre(Get(tyres, TyreKeys[i]))
        THEN /\ resp' = Response("intake/tyres", vin, 400, "invalid_tyre_measurements")
             /\ UNCHANGED <<map, disk>>
        ELSE LET m == Commit(w1, vin)
             IN /\ map' = m
                /\ disk' = Persist(m, vin)
                /\ resp' = Response("intake/tyres", vin, 200, "")
     /\ UNCHANGED <<process, env, cli>>

\* ------------------------------------------------------------------------
\* server/photos.ts
\* ------------------------------------------------------------------------
RECURSIVE MergeByRole(_, _)
\* new Map(items.map(i => [i.role, i])) followed by byRole.set(it.role, it)
\* for every new item, read back with Array.from(byRole.values())
MergeByRole(items, added) ==
  IF Len(added) = 0 THEN items
  ELSE LET it == added[1]
           merged == IF \E i \in 1..Len(items) : Get(items[i], "role") = Get(it, "role")
                     THEN Tuple([i \in 1..Len(items) |->
                             IF Get(items[i], "role") = Get(it, "role") THEN it ELSE items[i]])
                     ELSE Append(items, it)
       IN MergeByRole(merged, Tail(added))

\* upsertImageManifest(vin, ...items): [ok, map]; ok is FALSE when it throws
upsertImageManifest(vin, items) ==
  LET rec == map[vin]
      sealedLot == Get(rec.sealed, "lot_id")
      w0 == Edit(rec, Obj(<< KV("vin", Str(vin)),
                             KV("lot_id", IF Truthy(sealedLot) THEN sealedLot
                                          ELSE Str(LotDefault)) >>), TRUE)
      w1 == EnsureNested(w0, "images", Obj(<<KV("items", Arr(<<>>))>>))
      old == Path(w1.draft, "images", "items")
  IN IF old.t # "arr"
     THEN [ok |-> FALSE, map |-> map]
     ELSE [ok |-> TRUE,
           map |-> Commit(SetNested(w1, "images", "items", Arr(MergeByRole(old.v, items))), vin)]

\* the manifest item of an uploaded photo
PhotoItem(vin, role, now) ==
  LET fname == vin \o <<"_">> \o role \o <<"_">> \o now \o <<".jpg">>
  IN Obj(<< KV("role", Str(role)),
            KV("object_key", Str(<<"local:">> \o fname)),
            KV("url", Str(<<"/uploads/">> \o fname)),
            KV("sha256", Str(<<"sha256:">> \o fname)),
            KV("captured_ts", Str(now)) >>)

\* POST /intake/photos/upload
PhotoUpload(vinRaw, role, hasFile, now) ==
  LET vin == sanitizeVin(vinRaw)
      r == upsertImageManifest(vin, <<PhotoItem(vin, role, now)>>)
  IN /\ process = "server"
     /\ IF vin = <<>> \/ role = <<>> \/ ~hasFile
        THEN /\ resp' = Response("photos/upload", vin, 400, "vin_role_file_required")
             /\ UNCHANGED <<map, disk>>
        ELSE IF ~r.ok
        THEN /\ resp' = Response("photos/upload", vin, 500, "dev_upload_failed")
             /\ UNCHANGED <<map, disk>>
        ELSE /\ map' = r.map
             /\ disk' = Persist(r.map, vin)
             /\ resp' = Response("photos/upload", vin, 200, "")
     /\ UNCHANGED <<process, env, cli>>

\* POST /intake/photos/complete.  roles: the roles of the posted items
PhotoComplete(vinRaw, roles, now) ==
  LET vin == sanitizeVin(vinRaw)
      enriched == Tuple([i \in 1..Len(roles) |->
                     Obj(<< KV("role", Str(roles[i])),
                            KV("object_key", Str(<<"s3:">> \o vin \o <<"/">> \o roles[i])),
                            KV("url", Null),
                            KV("sha256", Null),
                            KV("captured_ts", Str(now)) >>)])
      r == upsertImageManifest(vin, enriched)
  IN /\ process = "server"
     /\ IF ~env.S3_BUCKET
        THEN /\ resp' = Response("photos/complete", vin, 400, "s3_not_configured")
             /\ UNCHANGED <<map, disk>>
        ELSE IF vin = <<>> \/ Len(roles) = 0
        THEN /\ resp' = Response("photos/complete", vin, 400, "vin_and_items_required")
             /\ UNCHANGED <<map, disk>>
        ELSE /\ r.ok  \* a throw here is not caught: the request gets no answer
             /\ map' = r.map
             /\ disk' = Persist(r.map, vin)
             /\ resp' = Response("photos/complete", vin, 200, "")
     /\ UNCHANGED <<process, env, cli>>

\* DELETE /passports/:vin
DeletePassport(vinRaw) ==
  LET vin == sanitizeVin(vinRaw)
  IN /\ process = "server"
     /\ vin \in StoreKeys
     /\ map' = [map EXCEPT ![vin] = NoRecord]
     /\ disk' = [disk EXCEPT ![vin] = NoFile]
     /\ resp' = Response("delete", vin, 200, "")
     /\ UNCHANGED <<process, env, cli>>

\* ------------------------------------------------------------------------
\* The files under data/ and their reload
\* ------------------------------------------------------------------------
MaxPad == 1
TrailingSpaces(s) == Len(s) - Len(TrimRight(s))

\* an edit somebody makes to a passport file outside the program; the seal
\* block is left alone
TamperEdits == {"pad", "lot", "frac"}
\* one kind of edit is made to a file: spaces are appended to lot_id (up to
\* MaxPad of them), or lot_id is replaced, or odometer.km gets a fourth decimal
Padded(doc) == IsStr(Get(doc, "lot_id")) /\ TrailingSpaces(Get(doc, "lot_id").v) > 0
Relotted(doc) == Get(doc, "lot_id") = Str(Lot2)
Fractioned(doc) ==
  /\ Path(doc, "odometer", "km").t = "num"
  /\ Path(doc, "odometer", "km").v.e = 1
CanTamper(doc, e) ==
  /\ IsObj(doc)
  /\ CASE e = "pad" -> /\ IsStr(Get(doc, "lot_id"))
                       /\ TrailingSpaces(Get(doc, "lot_id").v) < MaxPad
                       /\ ~Relotted(doc) /\ ~Fractioned(doc)
       [] e = "lot" -> ~Relotted(doc) /\ ~Padded(doc) /\ ~Fractioned(doc)
       [] e = "frac" -> /\ Path(doc, "odometer", "km").t = "num"
                        /\ Path(doc, "odometer", "km").v.e = 0
                        /\ ~Relotted(doc) /\ ~Padded(doc)
Tamper(doc, e) ==
  CASE e = "pad" -> Put(doc, "lot_id", Str(Get(doc, "lot_id").v \o <<" ">>))
    [] e = "lot" -> Put(doc, "lot_id", Str(Lot2))
    [] e = "frac" ->
         Put(doc, "odometer",
             Put(Get(doc, "odometer"), "km",
                 [t |-> "num", v |-> [m |-> Path(doc, "odometer", "km").v.m, e |-> 1]]))

\* data/<VIN>.json is edited on disk while the server is down or running
TamperDisk(vin, e) ==
  /\ process = "server"
  /\ disk[vin].present
  /\ CanTamper(disk[vin].sealed, e)
  /\ disk' = [disk EXCEPT ![vin].sealed = Tamper(@, e)]
  /\ resp' = NoResponse
  /\ UNCHANGED <<process, env, map, cli>>

\* the server is restarted: createDevStorage() -> init() reloads every file
Restart ==
  /\ process = "server"
  /\ map' = [k \in StoreKeys |-> IF disk[k].present THEN LoadFile(disk[k]) ELSE NoRecord]
  /\ resp' = NoResponse
  /\ UNCHANGED <<process, env, disk, cli>>

\* Storage.upsertSealed called with a passport sealed elsewhere (the
\* Storage interface is exported; the routes only call it after a draft)
ImportedSealed ==
  sealPassportDraft(
    Obj(<< KV("vin", Str(VinB)), KV("lot_id", Str(Lot2)),
           KV("odometer", Obj(<<KV("km", IntNum(500))>>)) >>),
    "k1", <<>>, <<"T", "0", "Z">>, 1).sealed
StorageUpsertSealed(sealed) ==
  LET vin == sanitizeVin(Get(sealed, "vin"))
      m == upsertSealed(map, sealed, {})
  IN /\ process = "server"
     /\ vin # <<>>
     /\ map' = m
     /\ disk' = Persist(m, vin)
     /\ resp' = Response("storage.upsertSealed", vin, 200, "")
     /\ UNCHANGED <<process, env, cli>>

\* ------------------------------------------------------------------------
\* cli/seal.ts and cli/verify.ts
\* ------------------------------------------------------------------------
\* the input file is rewritten with its properties in the opposite order,
\* at the top level and inside every nested object
Reversed(s) == Tuple([i \in 1..Len(s) |-> s[Len(s) + 1 - i]])
ReorderKeys(o) ==
  LET rev == Reversed(o.v)
  IN Obj(Tuple([i \in 1..Len(rev) |->
                  IF IsObj(rev[i].v) THEN KV(rev[i].k, Obj(Reversed(rev[i].v.v))) ELSE rev[i]]))

CliReorder ==
  /\ process = "cli"
  /\ IsObj(cli.in) /\ Len(cli.in.v) > 0
  /\ cli' = [cli EXCEPT !.in = ReorderKeys(@)]
  /\ resp' = NoResponse
  /\ UNCHANGED <<process, env, map, disk>>

\* cli/seal.ts main()
CliSeal(keyId, sealedAt, nonce) ==
  /\ process = "cli"
  /\ IF ~validateDraft(cli.in)
     THEN /\ resp' = [Response("cli/seal", <<>>, 2, "not a valid PassportDraft")
                        EXCEPT !.details = DraftErrors(cli.in)]
          /\ UNCHANGED cli
     ELSE LET r == sealPassportDraft(cli.in, cli.priv, keyId, sealedAt, nonce)
          IN IF r.ok
             THEN /\ cli' = [cli EXCEPT !.out = r.sealed]
                  /\ resp' = [Response("cli/seal", <<>>, 0, "")
                                EXCEPT !.hash = Path(r.sealed, "seal", "hash")]
             ELSE /\ resp' = [Response("cli/seal", <<>>, 1, "cannot seal")
                                EXCEPT !.details = r.errors]
                  /\ UNCHANGED cli
  /\ UNCHANGED <<process, env, map, disk>>

\* the sealed output file is edited outside the program
CliTamper(e) ==
  /\ process = "cli"
  /\ CanTamper(cli.out, e)
  /\ cli' = [cli EXCEPT !.out = Tamper(@, e)]
  /\ resp' = NoResponse
  /\ UNCHANGED <<process, env, map, disk>>

\* the sealed output file is fed back as the input of cli/seal.ts
CliReseal ==
  /\ process = "cli"
  /\ IsObj(cli.out)
  /\ cli' = [cli EXCEPT !.in = cli.out]
  /\ resp' = NoResponse
  /\ UNCHANGED <<process, env, map, disk>>

\* cli/verify.ts main()
CliVerify ==
  /\ process = "cli"
  /\ IsObj(cli.out)
  /\ IF ~validateSealed(cli.out)
     THEN resp' = [Response("cli/verify", <<>>, 2, "not a valid PassportSealed")
                     EXCEPT !.details = SealedErrors(cli.out)]
     ELSE LET r == verifySealedPassport(cli.out, cli.pub)
          IN resp' = [Response("cli/verify", <<>>, IF r.valid THEN 0 ELSE 3, "")
                        EXCEPT !.valid = r.valid, !.reasons = r.reasons]
  /\ UNCHANGED <<process, env, map, disk, cli>>

\* ------------------------------------------------------------------------
\* POST /passports/seal/strict
\* ------------------------------------------------------------------------
\* required.filter(r => !present.has(r))
MissingRoles(model) ==
  LET required == Path(model, "images", "required")
      items == Path(model, "images", "items")
      req == IF required.t = "arr" THEN required.v ELSE <<>>
      its == IF items.t = "arr" THEN items.v ELSE <<>>
  IN SelectSeq(req, LAMBDA r : ~\E i \in 1..Len(its) : Get(its[i], "role") = r)
\* missing.join(","), the roles being texts
RECURSIVE TextString(_)
TextString(t) == IF Len(t) = 0 THEN "" ELSE t[1] \o TextString(Tail(t))
RECURSIVE JoinRoles(_)
JoinRoles(roles) ==
  IF Len(roles) = 0 THEN ""
  ELSE TextString(roles[1].v) \o (IF Len(roles) > 1 THEN "," \o JoinRoles(Tail(roles)) ELSE "")
\* variant: the photos are not looked at
StrictReasonsNoPhotos(model) ==
  (IF ~Truthy(Path(model, "dekra", "url")) THEN <<"missing_dekra_url">> ELSE <<>>)
  \o (IF Path(model, "odometer", "km").t \in {"undef", "null"}
      THEN <<"missing_odometer_km">> ELSE <<>>)
StrictReasons(model) ==
  (IF ~Truthy(Path(model, "dekra", "url")) THEN <<"missing_dekra_url">> ELSE <<>>)
  \o (IF Path(model, "odometer", "km").t \in {"undef", "null"}
      THEN <<"missing_odometer_km">> ELSE <<>>)
  \o (IF Len(MissingRoles(model)) > 0
      THEN <<"missing_photos:" \o JoinRoles(MissingRoles(model))>> ELSE <<>>)

SealStrict(vinRaw, force, now) ==
  LET vin == sanitizeVin(vinRaw)
  IN /\ process = "server"
     /\ IF vin = <<>>
        THEN /\ resp' = Response("seal/strict", vin, 400, "vin_required")
             /\ UNCHANGED <<map, disk>>
        ELSE IF ~Truthy(map[vin].draft)
        THEN /\ resp' = Response("seal/strict", vin, 404, "draft_not_found")
             /\ UNCHANGED <<map, disk>>
        ELSE IF Len(StrictReasons(map[vin].draft)) > 0 /\ ~force
        THEN /\ resp' = [Response("seal/strict", vin, 412, "not_ready")
                           EXCEPT !.reasons = StrictReasons(map[vin].draft)]
             /\ UNCHANGED <<map, disk>>
        ELSE SealStored("seal/strict", vin, now)
     /\ UNCHANGED <<process, env, cli>>

\* ------------------------------------------------------------------------
\* GET /intake/checklist/:vin
\* ------------------------------------------------------------------------
ArrayOf(x) == IF x.t = "arr" THEN x.v ELSE <<>>
FirstDefined(a, b) == IF a.t \in {"undef", "null"} THEN b ELSE a
RolesPresent(items) == {Get(items[i], "role") : i \in 1..Len(items)}
ChecklistAnswer(required, present, hasDekra, hasOdo) ==
  [ hasDekra |-> hasDekra,
    hasOdo |-> hasOdo,
    photosOk |-> Len(required) > 0 /\ \A i \in 1..Len(required) : required[i] \in present,
    requiredCount |-> Len(required),
    presentCount |-> Cardinality(present),
    missing |-> SelectSeq(required, LAMBDA role : role \notin present),
    ready |-> /\ hasDekra /\ hasOdo
              /\ IF Len(required) = 0 THEN FALSE
                 ELSE Len(required) > 0 /\ \A i \in 1..Len(required) : required[i] \in present ]
ChecklistOf(rec) ==
  IF ~Truthy(rec.draft) /\ ~Truthy(rec.sealed)
  THEN [ hasDekra |-> FALSE, hasOdo |-> FALSE, photosOk |-> FALSE, requiredCount |-> 0,
         presentCount |-> 0, missing |-> <<>>, ready |-> FALSE ]
  ELSE ChecklistAnswer(
         IF Len(ArrayOf(Path(rec.draft, "images", "required"))) > 0
         THEN ArrayOf(Path(rec.draft, "images", "required"))
         ELSE ArrayOf(Path(rec.sealed, "images", "required")),
         RolesPresent(ArrayOf(Path(rec.sealed, "images", "items"))
                      \o ArrayOf(Path(rec.draft, "images", "items"))),
         Truthy(Path(rec.draft, "dekra", "url")) \/ Truthy(Path(rec.sealed, "dekra", "url")),
         FirstDefined(Path(rec.draft, "odometer", "km"),
                      Path(rec.sealed, "odometer", "km")).t \notin {"undef", "null"})
Checklist(vinRaw) ==
  /\ process = "server"
  /\ resp' = Response("intake/checklist", sanitizeVin(vinRaw), 200, "")
              @@ [checklist |-> ChecklistOf(map[sanitizeVin(vinRaw)])]
  /\ UNCHANGED <<process, env, cli, map, disk>>

\* ------------------------------------------------------------------------
\* Specification
\* ------------------------------------------------------------------------
Env(priv, pub, s3) == [PRIVATE_KEY_PEM |-> priv, PUBLIC_KEY_PEM |-> pub, S3_BUCKET |-> s3]
EnvConfigs ==
  { Env(NoKey, NoKey, FALSE), Env("k1", "pub:k1", FALSE), Env("k1", "pub:k2", FALSE),
    Env("k1", NoKey, FALSE) }
NoEnv == [PRIVATE_KEY_PEM |-> NoKey, PUBLIC_KEY_PEM |-> NoKey, S3_BUCKET |-> FALSE]

CliDrafts ==
  << Obj(<< KV("vin", Str(VinA)), KV("lot_id", Str(Lot1)),
            KV("odometer", Obj(<< KV("km", IntNum(238574)), KV("source", Str(<<"DEKRA">>)) >>)),
            KV("tyres_mm", Obj(<< KV("fl", Num(1500, 0)), KV("fr", Null) >>)) >>),
     Obj(<< KV("lot_id", Str(<<" ">> \o Lot1)), KV("vin", Str(VinB)),
            KV("odometer", Obj(<< KV("km", Num(1000, 4)) >>)) >>),
     Obj(<< KV("vin", Str(UnknownVin)), KV("lot_id", Str(Lot1)) >>) >>
NoCli == [in |-> Undef, out |-> Undef, priv |-> NoKey, pub |-> NoKey]
NoScan == [in |-> <<>>, out |-> Undef]

Photos1 == Arr(<<Str(Role1)>>)
Photos2 == Arr(<<Str(Role1), Str(Role2)>>)
InitBody(vin, lot, req, url, km, src) ==
  [ vin |-> vin, lot_id |-> lot, required_photos |-> req, dekra_url |-> url,
    odometer_km |-> km, odometer_source |-> src ]
SeedBody(vin, lot, req) == [vin |-> vin, lot_id |-> lot, required_photos |-> req]
TyresOf(x) == Obj(<< KV("fl", x), KV("fr", x), KV("rl", x), KV("rr", x) >>)

\* ---- the record store under the draft editing routes ----
Init ==
  /\ process = "server"
  /\ env = Env("k1", "pub:k1", TRUE)
  /\ map = [k \in StoreKeys |-> NoRecord]
  /\ disk = [k \in StoreKeys |-> NoFile]
  /\ resp = NoResponse
  /\ cli = NoCli
  /\ served = 0
  /\ scan = NoScan

MaxRequests == 4

InitBodies ==
  { InitBody(Str(VinARaw), Undef, Undef, Undef, Undef, Undef),
    InitBody(Str(VinA), Str(Lot1), Photos2, Str(Url1), IntNum(1000), Str(<<"photo_only">>)) }
SeedBodies == {SeedBody(Str(VinA), Str(Lot2), Photos1), SeedBody(Str(VinA), Undef, Photos1)}
TyreBodies ==
  { TyresOf(IntNum(3)), TyresOf(IntNum(13)), TyresOf(IntNum(25)),
    Put(TyresOf(IntNum(3)), "rr", IntNum(0 - 1)) }
IngestInputs ==
  { <<DocA, IngestOpt(Undef, Undef), Undef>>,
    <<DocA, IngestOpt(Str(Lot1), Str(Url1)), Str(VinARaw)>>,
    <<DocB, IngestOpt(Undef, Undef), Str(VinARaw)>>,
    <<DocNoVin, IngestOpt(Undef, Undef), Undef>> }

\* the server answers at most MaxRequests requests in a run
Serve(A) == served < MaxRequests /\ served' = served + 1 /\ A /\ UNCHANGED scan

Next ==
  \/ \E i \in IngestInputs : Serve(IngestDekra(TRUE, i[1], i[2], i[3], Time1))
  \/ Serve(Seal(Str(VinA), Time1))
  \/ \E b \in InitBodies : Serve(IntakeInit(b))
  \/ \E b \in SeedBodies : Serve(IntakeSeed(b))
  \/ \E t \in TyreBodies : Serve(IntakeTyres(Str(VinA), t))
  \/ Serve(PhotoUpload(Str(VinA), Role1, TRUE, Time1))
  \/ Serve(PhotoComplete(Str(VinA), <<Role2>>, Time1))
  \/ Serve(DeletePassport(Str(VinA)))
  \/ Serve(Restart)
  \/ Serve(StorageUpsertSealed(ImportedSealed))

Spec == Init /\ [][Next]_vars

\* ---- intake up to the strict seal ----
ReadyBodies ==
  { InitBody(Str(VinA), Str(Lot1), Photos2, Str(Url1), IntNum(1000), Str(<<"photo_only">>)),
    InitBody(Str(VinA), Undef, Photos1, Undef, Undef, Undef),
    InitBody(Str(VinA), Undef, Arr(<<>>), Undef, Undef, Undef) }
NextReady ==
  \/ \E opt \in {IngestOpt(Undef, Undef), IngestOpt(Str(Lot1), Str(Url1))} :
       Serve(IngestDekra(TRUE, DocA, opt, Undef, Time1))
  \/ \E b \in ReadyBodies : Serve(IntakeInit(b))
  \/ \E role \in {Role1, Role2} : Serve(PhotoUpload(Str(VinA), role, TRUE, Time1))
  \/ \E force \in BOOLEAN : Serve(SealStrict(Str(VinA), force, Time1))
  \/ Serve(Checklist(Str(VinA)))
SpecReady == Init /\ [][NextReady]_vars

\* ---- requests in flight: a handler runs up to its next await, then yields ----
MaxFlights == 3   \* requests started in a run
MaxTicks == 2     \* values Date.now() takes in a run

\* identity of a JavaScript object: 0 no object, n > 0 created by request n,
\* FromDisk created by JSON.parse in init()
FromDisk == 0 - 1
NoTmp == [exists |-> FALSE, file |-> NoFile]
IdleFlight ==
  [ pc |-> "idle", kind |-> "", arg |-> Undef, rec |-> NoRecord, img |-> 0,
    json |-> NoFile, tmp |-> 0 ]
NoFlights ==
  [ flight |-> [id \in 1..MaxFlights |-> IdleFlight], started |-> 0, img |-> 0,
    tmp |-> [t \in 1..MaxTicks |-> NoTmp], now |-> 1 ]

\* upsertImageManifest after `await storage.get(vin)`: the draft it hands to
\* storage.upsertDraft, built from the record rec that the get returned
ManifestDraft(rec, vin, items) ==
  LET sealedLot == Get(rec.sealed, "lot_id")
      base == IF Truthy(rec.draft) THEN rec.draft
              ELSE Obj(<< KV("vin", Str(vin)),
                          KV("lot_id", IF Truthy(sealedLot) THEN sealedLot
                                       ELSE Str(LotDefault)) >>)
      images == IF Truthy(Get(base, "images")) THEN Get(base, "images")
                ELSE Obj(<<KV("items", Arr(<<>>))>>)
  IN Put(base, "images",
         Put(images, "items", Arr(MergeByRole(ArrayOf(Get(images, "items")), items))))

\* POST /intake/tyres after `await storage.get(vin)`
TyresDraft(rec, vin, tyres) ==
  Put(IF Truthy(rec.draft) THEN rec.draft
      ELSE Obj(<<KV("vin", Str(vin)), KV("lot_id", Str(LotDefault))>>),
      "tyres_mm",
      Obj(<< KV("fl", Get(tyres, "fl")), KV("fr", Get(tyres, "fr")),
             KV("rl", Get(tyres, "rl")), KV("rr", Get(tyres, "rr")) >>))

FlightDraft(f) ==
  IF f.kind = "photo" THEN ManifestDraft(f.rec, VinA, <<f.arg>>)
  ELSE TyresDraft(f.rec, VinA, f.arg)

\* `const rec = await storage.get(vin)`: get() reads the map when it is
\* called, the handler goes on in a later turn of the event loop
StorageGet(kind, arg) ==
  LET id == scan.started + 1
  IN /\ process = "server"
     /\ scan.started < MaxFlights
     /\ scan' = [scan EXCEPT
                   !.started = id,
                   !.flight[id] = [ pc |-> "got", kind |-> kind, arg |-> arg,
                                    rec |-> map[VinA], img |-> scan.img,
                                    json |-> NoFile, tmp |-> 0 ]]
     /\ UNCHANGED <<process, env, map, disk, resp, cli, served>>

\* the handler resumes: it edits its copy of the draft and calls
\* storage.upsertDraft, which sets the map entry and runs persist() up to
\* `await fs.writeFile(tmp, json)`.  draft.images.items = ... assigns into the
\* images object, which every draft copied from the same record shares.
StorageUpsertDraft(id) ==
  LET f == scan.flight[id]
      draft == FlightDraft(f)
      m == upsertDraft(map, draft, {})
      img == IF f.kind = "photo" /\ f.img = 0 THEN id ELSE f.img
      sees(g) == g.pc = "got" /\ f.kind = "photo" /\ f.img # 0 /\ g.img = f.img
  IN /\ process = "server"
     /\ f.pc = "got"
     /\ map' = m
     /\ scan' = [scan EXCEPT
                   !.img = img,
                   !.flight = [k \in 1..MaxFlights |->
                      IF k = id
                      THEN [ f EXCEPT !.pc = "saved", !.rec = NoRecord, !.img = 0,
                                      !.json = FileOf(m[VinA]), !.tmp = scan.now ]
                      ELSE IF sees(scan.flight[k])
                      THEN [ scan.flight[k] EXCEPT
                               !.rec.draft = Put(@, "images", Get(draft, "images")) ]
                      ELSE scan.flight[k]]]
     /\ UNCHANGED <<process, env, disk, resp, cli, served>>

\* fs.writeFile(tmp, json) completes: the temporary file holds the text
WriteTmp(id) ==
  LET f == scan.flight[id]
  IN /\ process = "server"
     /\ f.pc = "saved"
     /\ scan' = [scan EXCEPT !.flight[id].pc = "written",
                             !.tmp[f.tmp] = [exists |-> TRUE, file |-> f.json]]
     /\ UNCHANGED <<process, env, map, disk, resp, cli, served>>

FlightRoute(f) == IF f.kind = "photo" THEN "photos/upload" ELSE "intake/tyres"
FlightError(f) == IF f.kind = "photo" THEN "dev_upload_failed" ELSE "save_tyres_failed"

\* fs.rename(tmp, file) completes and the handler answers; the rename of a
\* temporary file that another persist() already moved fails with ENOENT
RenameTmp(id) ==
  LET f == scan.flight[id]
  IN /\ process = "server"
     /\ f.pc = "written"
     /\ IF scan.tmp[f.tmp].exists
        THEN /\ disk' = [disk EXCEPT ![VinA] = scan.tmp[f.tmp].file]
             /\ scan' = [scan EXCEPT !.flight[id].pc = "ok", !.tmp[f.tmp] = NoTmp]
             /\ resp' = Response(FlightRoute(f), VinA, 200, "")
        ELSE /\ disk' = disk
             /\ scan' = [scan EXCEPT !.flight[id].pc = "failed"]
             /\ resp' = Response(FlightRoute(f), VinA, 500, FlightError(f))
     /\ UNCHANGED <<process, env, map, cli, served>>

\* the clock reaches the next millisecond
Tick ==
  /\ scan.now < MaxTicks
  /\ scan' = [scan EXCEPT !.now = @ + 1]
  /\ UNCHANGED <<process, env, map, disk, resp, cli, served>>

\* no request is between its storage.get and its answer
Quiescent == \A id \in 1..MaxFlights : scan.flight[id].pc \in {"idle", "ok", "failed"}

\* the server is restarted while it is idle: init() reloads every file and
\* the new process has answered nothing yet
RestartIdle ==
  /\ Quiescent
  /\ scan.started > 0
  /\ \E id \in 1..MaxFlights : scan.flight[id].pc # "idle"
  /\ Restart
  /\ scan' = [scan EXCEPT
                !.flight = [id \in 1..MaxFlights |-> IdleFlight],
                !.img = IF Truthy(Get(disk[VinA].draft, "images")) THEN FromDisk ELSE 0]
  /\ UNCHANGED served

FlightTyres == {TyresOf(IntNum(3)), TyresOf(IntNum(5))}
InitFlights ==
  /\ process = "server"
  /\ env = Env("k1", "pub:k1", TRUE)
  /\ map = [k \in StoreKeys |-> NoRecord]
  /\ disk = [k \in StoreKeys |-> NoFile]
  /\ resp = NoResponse
  /\ cli = NoCli
  /\ served = 0
  /\ scan = NoFlights
NextFlights ==
  \/ \E role \in {Role1, Role2} : StorageGet("photo", PhotoItem(VinA, role, Time1))
  \/ \E t \in FlightTyres : StorageGet("tyres", t)
  \/ \E id \in 1..MaxFlights : StorageUpsertDraft(id)
  \/ \E id \in 1..MaxFlights : WriteTmp(id)
  \/ \E id \in 1..MaxFlights : RenameTmp(id)
  \/ Tick
  \/ RestartIdle
SpecFlights == InitFlights /\ [][NextFlights]_vars

\* ---- the API key in front of the routes ----
ApiKey == <<"k3y">>
\* req.header("X-Api-Key"): absent, the configured key, another key
KeysSent == {Undef, Str(ApiKey), Str(<<"other">>)}
NoRequest == [prefixed |-> FALSE, router |-> "", key |-> Undef]

\* the middleware of the api router: no key configured, or the header equals it
Authorized(got) == env.API_KEY = <<>> \/ got = Str(env.API_KEY)

\* A request on its way through the app, in the order of the app.use calls:
\* photosRouter under API_PREFIX/intake/photos and under /intake/photos, the
\* routes attached to app itself (paths without the prefix), then the api
\* router under API_PREFIX: rate limiter, key check, the same routes.
\* router: "photos" for a path under intake/photos, "routes" for the others.
Gate(prefixed, router, got, A) ==
  /\ served < MaxRequests
  /\ served' = served + 1
  /\ scan' = [prefixed |-> prefixed, router |-> router, key |-> got]
  /\ IF router = "routes" /\ prefixed /\ ~Authorized(got)
     THEN /\ resp' = Response("api", <<>>, 401, "unauthorized")
          /\ UNCHANGED <<process, env, map, disk, cli>>
     ELSE A

InitGate ==
  /\ process = "server"
  /\ \E key \in {<<>>, ApiKey} : env = Env("k1", "pub:k1", TRUE) @@ [API_KEY |-> key]
  /\ map = [k \in StoreKeys |-> NoRecord]
  /\ disk = [k \in StoreKeys |-> NoFile]
  /\ resp = NoResponse
  /\ cli = NoCli
  /\ served = 0
  /\ scan = NoRequest
NextGate ==
  \E prefixed \in BOOLEAN, got \in KeysSent :
    \/ Gate(prefixed, "routes", got,
            IngestDekra(TRUE, DocA, IngestOpt(Str(Lot1), Str(Url1)), Undef, Time1))
    \/ Gate(prefixed, "routes", got,
            IntakeInit(InitBody(Str(VinA), Undef, Photos1, Undef, Undef, Undef)))
    \/ Gate(prefixed, "routes", got, IntakeTyres(Str(VinA), TyresOf(IntNum(3))))
    \/ Gate(prefixed, "routes", got, SealStrict(Str(VinA), TRUE, Time1))
    \/ Gate(prefixed, "routes", got, Verify(Str(VinA)))
    \/ Gate(prefixed, "routes", got, DeletePassport(Str(VinA)))
    \/ Gate(prefixed, "photos", got, PhotoUpload(Str(VinA), Role1, TRUE, Time1))
SpecGate == InitGate /\ [][NextGate]_vars

\* ---- sealing and verification, by the server and by the command line ----
InitSeal ==
  /\ process \in {"server", "cli"}
  /\ map = [k \in StoreKeys |-> NoRecord]
  /\ disk = [k \in StoreKeys |-> NoFile]
  /\ resp = NoResponse
  /\ served = 0
  /\ scan = NoScan
  /\ IF process = "server"
     THEN /\ env \in EnvConfigs
          /\ cli = NoCli
     ELSE /\ env = NoEnv
          /\ \E i \in 1..Len(CliDrafts), pub \in PublicKeys :
               cli = [in |-> CliDrafts[i], out |-> Undef, priv |-> "k1", pub |-> pub]

SealInputs == {<<Str(VinA), Time1>>, <<Str(VinA), Time2>>, <<Str(ShortVin), Time1>>}
StrictInputs == {<<Str(VinA), FALSE>>, <<Str(VinA), TRUE>>, <<Str(ShortVin), TRUE>>}

\* a step of the sealing runs, which are not counted
Run(A) == A /\ UNCHANGED <<served, scan>>

NextSeal ==
  \/ \E opt \in {IngestOpt(Undef, Undef), IngestOpt(Str(Lot1), Str(Url1))} :
       Run(IngestDekra(TRUE, DocA, opt, Undef, Time1))
  \/ Run(IntakeTyres(Str(ShortVin), TyresOf(IntNum(3))))
  \/ \E i \in SealInputs : Run(Seal(i[1], i[2]))
  \/ \E i \in StrictInputs : Run(SealStrict(i[1], i[2], Time1))
  \/ Run(Verify(Str(VinA)))
  \/ \E e \in TamperEdits : Run(TamperDisk(VinA, e))
  \/ Run(Restart)
  \/ Run(CliReorder)
  \/ \E i \in {1, 2} : Run(CliSeal(<<>>, <<Time1, Time2>>[i], i))
  \/ \E e \in TamperEdits : Run(CliTamper(e))
  \/ Run(CliReseal)
  \/ Run(CliVerify)

SpecSeal == InitSeal /\ [][NextSeal]_vars

\* ---- canonicalization of values built level by level ----
\* scan.in is a pair of values: at each level both are put into an object
\* next to a sibling, the second with its properties in either order, or
\* into an array before a sibling, the second with its elements in either
\* order
MaxWraps == 2
CanonLeaves == <<Str(<<"a">>), Str(<<" ", "a">>), IntNum(1), Num(1000, 4)>>
RECURSIVE Depth(_)
Depth(v) == IF v.t \in {"arr", "obj"} THEN 1 + Depth(IF v.t = "arr" THEN v.v[1] ELSE v.v[1].v) ELSE 0
InitCanon ==
  /\ process = "extract"
  /\ env = NoEnv
  /\ map = [k \in StoreKeys |-> NoRecord]
  /\ disk = [k \in StoreKeys |-> NoFile]
  /\ resp = NoResponse
  /\ cli = NoCli
  /\ served = 0
  /\ \E i \in 1..Len(CanonLeaves) :
       scan = [in |-> <<CanonLeaves[i], CanonLeaves[i]>>, out |-> Undef]
WrapObject(sibling, reversed) ==
  /\ process = "extract"
  /\ scan.out = Undef
  /\ Depth(scan.in[1]) < MaxWraps
  /\ scan' = [scan EXCEPT !.in =
               << Obj(<<KV("fl", scan.in[1]), KV("fr", sibling)>>),
                  IF reversed
                  THEN Obj(<<KV("fr", sibling), KV("fl", scan.in[2])>>)
                  ELSE Obj(<<KV("fl", scan.in[2]), KV("fr", sibling)>>) >>]
  /\ UNCHANGED <<process, env, map, disk, resp, cli, served>>
WrapArray(sibling, swapped) ==
  /\ process = "extract"
  /\ scan.out = Undef
  /\ Depth(scan.in[1]) < MaxWraps
  /\ scan' = [scan EXCEPT !.in =
               << Arr(<<scan.in[1], sibling>>),
                  IF swapped THEN Arr(<<sibling, scan.in[2]>>)
                  ELSE Arr(<<scan.in[2], sibling>>) >>]
  /\ UNCHANGED <<process, env, map, disk, resp, cli, served>>
\* both canonicalizers applied to both values: the library's canonical
\* string, and the JSON text of the server's canonical value
Canonicalize ==
  /\ process = "extract"
  /\ scan.out = Undef
  /\ scan' = [scan EXCEPT !.out =
               [lib |-> <<canonicalizeLib(scan.in[1]), canonicalizeLib(scan.in[2])>>,
                server |-> <<canonicalBytes(scan.in[1]), canonicalBytes(scan.in[2])>>]]
  /\ UNCHANGED <<process, env, map, disk, resp, cli, served>>
NextCanon ==
  \/ \E i \in 1..Len(CanonLeaves), reversed \in BOOLEAN : WrapObject(CanonLeaves[i], reversed)
  \/ \E i \in 1..Len(CanonLeaves), swapped \in BOOLEAN : WrapArray(CanonLeaves[i], swapped)
  \/ Canonicalize
SpecCanon == InitCanon /\ [][NextCanon]_vars

\* ------------------------------------------------------------------------
\* Text and regular expressions
\* ------------------------------------------------------------------------
\* a text is a sequence of characters
UpperLetters ==
  << "A", "B", "C", "D", "E", "F", "G", "H", "I", "J", "K", "L", "M", "N",
     "O", "P", "Q", "R", "S", "T", "U", "V", "W", "X", "Y", "Z" >>
LowerLetters ==
  << "a", "b", "c", "d", "e", "f", "g", "h", "i", "j", "k", "l", "m", "n",
     "o", "p", "q", "r", "s", "t", "u", "v", "w", "x", "y", "z" >>
Digits == {DigitChars[i] : i \in 1..Len(DigitChars)}
Uppers == {UpperLetters[i] : i \in 1..Len(UpperLetters)}
Lowers == {LowerLetters[i] : i \in 1..Len(LowerLetters)}
\* String.prototype.toUpperCase, character by character
UpperCaseOf ==
  [c \in Lowers |-> UpperLetters[CHOOSE i \in 1..Len(LowerLetters) : LowerLetters[i] = c]]
toUpperChar(c) == IF c \in Lowers THEN UpperCaseOf[c] ELSE c
toUpperCase(s) == Tuple([i \in 1..Len(s) |-> toUpperChar(s[i])])
\* \w and \s
IsWordChar(c) == c \in Uppers \cup Lowers \cup Digits \cup {"_"}
IsSpace(c) == c \in {" ", "\n", "\t", "\r"}
\* \b before position i of t (position Len(t) + 1 is the end of the text)
WordBoundary(t, i) ==
  (i > 1 /\ IsWordChar(t[i - 1])) # (i <= Len(t) /\ IsWordChar(t[i]))

\* The pieces a regular expression is made of.  A literal is written in
\* upper case; under the i flag the text is folded to upper case before
\* it is compared.
Lit(s) == [k |-> "lit", s |-> s]
Spaces == [k |-> "ws"]                     \* \s+
WordEdge == [k |-> "b"]                    \* \b
Opt(p) == [k |-> "opt", p |-> p]           \* (p)?
Alt(ps) == [k |-> "alt", ps |-> ps]        \* (p1|p2|...)
OneOf(set) == [k |-> "cls", set |-> set]   \* [...]
NoneOf(set) == [k |-> "ncls", set |-> set] \* [^...]
Start == [k |-> "start"]                   \* ^
NotBefore(set) == [k |-> "nla", set |-> set] \* (?![...])
Rep(set, n) == [k |-> "rep", set |-> set, n |-> n] \* [...]{n}
Range(set, lo, hi) == [k |-> "range", set |-> set, lo |-> lo, hi |-> hi, open |-> FALSE] \* [...]{lo,hi}
AtLeast(set, lo) == [k |-> "range", set |-> set, lo |-> lo, hi |-> lo, open |-> TRUE]    \* [...]{lo,}
Plus(p) == [k |-> "plus", p |-> p]         \* (p)+
End == [k |-> "end"]                       \* $

\* the positions at which a match of pat that starts at position i of t
\* can end (the index of the first character after the match)
RECURSIVE MatchEnds(_, _, _, _)
MatchEnds(t, pat, i, ignoreCase) ==
  IF Len(pat) = 0 THEN {i}
  ELSE LET e == Head(pat)
           fold(c) == IF ignoreCase THEN toUpperChar(c) ELSE c
           after ==
             CASE e.k = "lit" ->
                    IF /\ i + Len(e.s) - 1 <= Len(t)
                       /\ \A j \in 1..Len(e.s) : fold(t[i + j - 1]) = e.s[j]
                    THEN {i + Len(e.s)} ELSE {}
               [] e.k = "ws" ->
                    {j \in (i + 1)..(Len(t) + 1) : \A l \in i..(j - 1) : IsSpace(t[l])}
               [] e.k = "b" -> IF WordBoundary(t, i) THEN {i} ELSE {}
               [] e.k = "opt" -> {i} \cup MatchEnds(t, e.p, i, ignoreCase)
               [] e.k = "alt" ->
                    UNION {MatchEnds(t, e.ps[n], i, ignoreCase) : n \in 1..Len(e.ps)}
               [] e.k = "cls" ->
                    IF i <= Len(t) /\ fold(t[i]) \in e.set THEN {i + 1} ELSE {}
               [] e.k = "ncls" ->
                    IF i <= Len(t) /\ fold(t[i]) \notin e.set THEN {i + 1} ELSE {}
               [] e.k = "rep" ->
                    IF /\ i + e.n - 1 <= Len(t)
                       /\ \A j \in 0..(e.n - 1) : fold(t[i + j]) \in e.set
                    THEN {i + e.n} ELSE {}
               [] e.k = "range" ->
                    {i + n : n \in {m \in e.lo..(IF e.open THEN Len(t) ELSE e.hi) :
                                      /\ i + m - 1 <= Len(t)
                                      /\ \A j \in 0..(m - 1) : fold(t[i + j]) \in e.set}}
               [] e.k = "plus" ->
                    LET once == MatchEnds(t, e.p, i, ignoreCase)
                    IN once \cup UNION {MatchEnds(t, <<e>>, j, ignoreCase) : j \in once \ {i}}
               [] e.k = "start" -> IF i = 1 THEN {i} ELSE {}
               [] e.k = "end" -> IF i = Len(t) + 1 THEN {i} ELSE {}
               [] e.k = "nla" ->
                    IF i <= Len(t) /\ fold(t[i]) \in e.set THEN {} ELSE {i}
       IN UNION {MatchEnds(t, Tail(pat), j, ignoreCase) : j \in after}
\* RegExp.prototype.test of a regular expression without the g flag
Test(pat, t, ignoreCase) ==
  \E i \in 1..(Len(t) + 1) : MatchEnds(t, pat, i, ignoreCase) # {}

\* ------------------------------------------------------------------------
\* ingest/dekra/extractors.ts: extractDtc
\* ------------------------------------------------------------------------
AlnumUpperChars == Uppers \cup Digits
HexChars == Digits \cup {"A", "B", "C", "D", "E", "F"}
\* /(?:^|[^A-Z0-9])([PCBU][0-9A-F]{4})(?![A-Z0-9])/g
RE_DTC ==
  << Alt(<< <<Start>>, <<NoneOf(AlnumUpperChars)>> >>),
     OneOf({"P", "C", "B", "U"}),
     OneOf(HexChars), OneOf(HexChars), OneOf(HexChars), OneOf(HexChars),
     NotBefore(AlnumUpperChars) >>
NO_FAULT_PHRASES ==
  << << WordEdge, Lit(<<"N", "O">>), Spaces,
        Alt(<< <<Lit(<<"D", "T", "C">>), Opt(<<Lit(<<"S">>)>>)>>,
               <<Lit(<<"F", "A", "U", "L", "T">>), Opt(<<Lit(<<"S">>)>>)>>,
               <<Lit(<<"E", "R", "R", "O", "R">>), Opt(<<Lit(<<"S">>)>>)>>,
               <<Lit(<<"T", "R", "O", "U", "B", "L", "E">>), Spaces, Lit(<<"C", "O", "D", "E">>), Opt(<<Lit(<<"S">>)>>)>> >>),
        WordEdge >>,
     << WordEdge, Lit(<<"N", "O">>), Spaces, Lit(<<"F", "A", "U", "L", "T">>), Spaces,
        Lit(<<"C", "O", "D", "E", "S">>), Spaces, Lit(<<"F", "O", "U", "N", "D">>), WordEdge >>,
     << WordEdge, Lit(<<"N", "O">>), Spaces, Lit(<<"D", "I", "A", "G", "N", "O", "S", "T", "I", "C">>), Spaces,
        Lit(<<"T", "R", "O", "U", "B", "L", "E">>), Spaces, Lit(<<"C", "O", "D", "E">>), Opt(<<Lit(<<"S">>)>>), WordEdge >>,
     << WordEdge, Lit(<<"N", "O">>), Spaces, Lit(<<"A", "C", "T", "I", "V", "E">>), Spaces,
        Lit(<<"E", "R", "R", "O", "R">>), Spaces, Lit(<<"M", "E", "S", "S", "A", "G", "E">>), Opt(<<Lit(<<"S">>)>>), WordEdge >> >>
\* variant: no wording counts as a section header
HAS_DTC_SECTION_None == <<>>
HAS_DTC_SECTION ==
  << << WordEdge, Lit(<<"D", "I", "A", "G", "N", "O", "S", "T", "I", "C">>), Spaces, Lit(<<"T", "R", "O", "U", "B", "L", "E">>), Spaces,
        Lit(<<"C", "O", "D", "E">>), Opt(<<Lit(<<"S">>)>>), WordEdge >>,
     << WordEdge, Lit(<<"D", "T", "C">>), Opt(<<Lit(<<"S">>)>>), WordEdge >>,
     << WordEdge, Lit(<<"F", "A", "U", "L", "T">>), Spaces, Lit(<<"C", "O", "D", "E">>), Opt(<<Lit(<<"S">>)>>), WordEdge >> >>
\* /\b(MIL\s+ON|CURRENT|ACTIVE|PRESENT|PERMANENT|STORED)\b/
RE_RED ==
  << WordEdge,
     Alt(<< <<Lit(<<"M", "I", "L">>), Spaces, Lit(<<"O", "N">>)>>,
            <<Lit(<<"C", "U", "R", "R", "E", "N", "T">>)>>, <<Lit(<<"A", "C", "T", "I", "V", "E">>)>>, <<Lit(<<"P", "R", "E", "S", "E", "N", "T">>)>>,
            <<Lit(<<"P", "E", "R", "M", "A", "N", "E", "N", "T">>)>>, <<Lit(<<"S", "T", "O", "R", "E", "D">>)>> >>),
     WordEdge >>

\* the while loop over RE_DTC.exec(t.toUpperCase()): the captured codes of
\* all matches from position `from` on, left to right.  A match of RE_DTC
\* at a given start has one possible end; the capture is its last five
\* characters.
RECURSIVE ExecDtc(_, _)
ExecDtc(t, from) ==
  LET starts == {i \in from..(Len(t) + 1) : MatchEnds(t, RE_DTC, i, FALSE) # {}}
  IN IF starts = {} THEN <<>>
     ELSE LET i == CHOOSE x \in starts : \A y \in starts : x <= y
              j == CHOOSE x \in MatchEnds(t, RE_DTC, i, FALSE) : TRUE
          IN <<SubSeq(t, j - 5, j - 1)>> \o ExecDtc(t, j)
\* variant: every match is kept, repeated ones too
SetOfKeepsAll(items) == items
\* new Set<string>() filled by tokens.add(m[1]), read back in insertion order
RECURSIVE SetOf(_)
SetOf(items) ==
  IF Len(items) = 0 THEN <<>>
  ELSE LET init == SetOf(SubSeq(items, 1, Len(items) - 1))
           last == items[Len(items)]
       IN IF \E i \in 1..Len(init) : init[i] = last THEN init ELSE Append(init, last)

\* variant: code tokens are looked for before the no-fault phrases
extractDtcCodesFirst(text) ==
  LET codes == SetOf(ExecDtc(toUpperCase(text), 1))
  IN IF Len(codes) > 0
     THEN [status |-> IF Test(RE_RED, toUpperCase(text), FALSE) THEN "red" ELSE "amber",
           codes |-> codes]
     ELSE IF \/ \E n \in 1..Len(NO_FAULT_PHRASES) : Test(NO_FAULT_PHRASES[n], text, TRUE)
             \/ \E n \in 1..Len(HAS_DTC_SECTION) : Test(HAS_DTC_SECTION[n], text, TRUE)
          THEN [status |-> "green", codes |-> <<>>]
          ELSE [status |-> "n/a", codes |-> <<>>]
extractDtc(text) ==
  IF \E n \in 1..Len(NO_FAULT_PHRASES) : Test(NO_FAULT_PHRASES[n], text, TRUE)
  THEN [status |-> "green", codes |-> <<>>]
  ELSE LET codes == SetOf(ExecDtc(toUpperCase(text), 1))
       IN IF Len(codes) = 0
          THEN LET mentionsDtc ==
                     \E n \in 1..Len(HAS_DTC_SECTION) : Test(HAS_DTC_SECTION[n], text, TRUE)
               IN [status |-> IF mentionsDtc THEN "green" ELSE "n/a", codes |-> <<>>]
          ELSE LET isRed == Test(RE_RED, toUpperCase(text), FALSE)
               IN [status |-> IF isRed THEN "red" ELSE "amber", codes |-> codes]

\* ---- extractDtc applied to report texts ----
\* a report text is made of at most MaxFrags of these pieces, in any order
MaxFrags == 3
DtcFragments ==
  << <<"N", "o", " ">>,
     <<"D", "T", "C", "s", " ">>,
     <<"f", "a", "u", "l", "t", " ", "c", "o", "d", "e", "s", " ">>,
     <<"a", "c", "t", "i", "v", "e", " ", "e", "r", "r", "o", "r", " ", "m", "e", "s", "s", "a", "g", "e", "s">>,
     <<"i", "n">>,
     <<"P", "0", "4", "2", "0", " ">>,
     <<"p", "0", "3", "0", "1", ",">>,
     <<"S", "t", "o", "r", "e", "d", ":", " ">>,
     <<"_">>,
     <<"t", "r", "o", "u", "b", "l", "e", " ", "c", "o", "d", "e", "s", "\n">>,
     <<"D", "i", "a", "g", "n", "o", "s", "t", "i", "c", "\n">>,
     <<"M", "I", "L", "\t", "O", "N", " ">>,
     <<"e", "r", "r", "o", "r", "s", " ">> >>
\* every text that is at most n pieces of frags, one after the other
RECURSIVE TextsOf(_, _)
TextsOf(frags, n) ==
  IF n = 0 THEN {<<>>}
  ELSE LET shorter == TextsOf(frags, n - 1)
       IN shorter \cup {t \o frags[i] : t \in shorter, i \in 1..Len(frags)}

\* a run of one extractor: no server, no store
InitExtract(inputs) ==
  /\ process = "extract"
  /\ env = NoEnv
  /\ map = [k \in StoreKeys |-> NoRecord]
  /\ disk = [k \in StoreKeys |-> NoFile]
  /\ resp = NoResponse
  /\ cli = NoCli
  /\ served = 0
  /\ \E t \in inputs : scan = [in |-> t, out |-> Undef]
InitDtc == InitExtract(TextsOf(DtcFragments, MaxFrags))

\* mapToPassportDraft: const dtc = extractDtc(text)
ExtractDtc ==
  /\ process = "extract"
  /\ scan.out = Undef
  /\ scan' = [scan EXCEPT !.out = extractDtc(scan.in)]
  /\ UNCHANGED <<process, env, map, disk, resp, cli, served>>

NextDtc == ExtractDtc
SpecDtc == InitDtc /\ [][NextDtc]_vars

\* ---- extractDtc called again and again ----
\* RE_DTC is one object of the module and has the g flag: exec starts at
\* RE_DTC.lastIndex (counted from 0), sets it to the end of the match it
\* finds, and sets it to 0 when it finds none
RegExpExec(t, lastIndex) ==
  LET starts == {i \in (lastIndex + 1)..(Len(t) + 1) : MatchEnds(t, RE_DTC, i, FALSE) # {}}
  IN IF starts = {} THEN [m |-> Null, lastIndex |-> 0]
     ELSE LET i == CHOOSE x \in starts : \A y \in starts : x <= y
              j == CHOOSE x \in MatchEnds(t, RE_DTC, i, FALSE) : TRUE
          IN [m |-> SubSeq(t, j - 5, j - 1), lastIndex |-> j - 1]
ExecStep(r, tokens) == [tokens |-> <<r.m>> \o tokens.tokens, lastIndex |-> tokens.lastIndex]
\* variant: the loop is left after the first match
ExecLoopFirstOnly(t, lastIndex) ==
  LET r == RegExpExec(t, lastIndex)
  IN [tokens |-> IF r.m = Null THEN <<>> ELSE <<r.m>>, lastIndex |-> r.lastIndex]
\* while ((m = RE_DTC.exec(t.toUpperCase())) !== null) tokens.add(m[1])
RECURSIVE ExecLoop(_, _)
ExecLoop(t, lastIndex) ==
  LET r == RegExpExec(t, lastIndex)
  IN IF r.m = Null THEN [tokens |-> <<>>, lastIndex |-> r.lastIndex]
     ELSE ExecStep(r, ExecLoop(t, r.lastIndex))
DtcOf(text, found) ==
  [lastIndex |-> found.lastIndex,
   result |->
     IF Len(SetOf(found.tokens)) = 0
     THEN [status |-> IF \E n \in 1..Len(HAS_DTC_SECTION) : Test(HAS_DTC_SECTION[n], text, TRUE)
                      THEN "green" ELSE "n/a",
           codes |-> <<>>]
     ELSE [status |-> IF Test(RE_RED, toUpperCase(text), FALSE) THEN "red" ELSE "amber",
           codes |-> SetOf(found.tokens)]]
\* extractDtc with RE_DTC.lastIndex as it is found and as it is left
extractDtcCall(text, lastIndex) ==
  IF \E n \in 1..Len(NO_FAULT_PHRASES) : Test(NO_FAULT_PHRASES[n], text, TRUE)
  THEN [lastIndex |-> lastIndex, result |-> [status |-> "green", codes |-> <<>>]]
  ELSE DtcOf(text, ExecLoop(toUpperCase(text), lastIndex))

\* the texts of the calls, and the number of calls of a run
MaxCalls == 3
CallTexts ==
  << DtcFragments[6] \o DtcFragments[7],
     DtcFragments[1] \o DtcFragments[2],
     DtcFragments[6],
     DtcFragments[8] \o DtcFragments[7],
     DtcFragments[5],
     DtcFragments[2] \o DtcFragments[9] >>
\* scan.in: the texts of the calls so far; scan.out: their results
InitDtcCalls ==
  /\ process = "extract"
  /\ env = NoEnv
  /\ map = [k \in StoreKeys |-> NoRecord]
  /\ disk = [k \in StoreKeys |-> NoFile]
  /\ resp = NoResponse
  /\ cli = NoCli
  /\ served = 0
  /\ scan = [in |-> <<>>, out |-> <<>>, lastIndex |-> 0]
Called(text, call) ==
  [in |-> Append(scan.in, text), out |-> Append(scan.out, call.result),
   lastIndex |-> call.lastIndex]
CallExtractDtc(text) ==
  /\ process = "extract"
  /\ Len(scan.in) < MaxCalls
  /\ scan' = Called(text, extractDtcCall(text, scan.lastIndex))
  /\ UNCHANGED <<process, env, map, disk, resp, cli, served>>
NextDtcCalls == \E i \in 1..Len(CallTexts) : CallExtractDtc(CallTexts[i])
SpecDtcCalls == InitDtcCalls /\ [][NextDtcCalls]_vars

\* ------------------------------------------------------------------------
\* server/app.ts: VIN check digit
\* ------------------------------------------------------------------------
VinWeights == <<8, 7, 6, 5, 4, 3, 2, 10, 0, 9, 8, 7, 6, 5, 4, 3, 2>>
\* the `values` table of isValidVin
VinValues ==
  "0" :> 0 @@ "1" :> 1 @@ "2" :> 2 @@ "3" :> 3 @@ "4" :> 4 @@ "5" :> 5 @@
  "6" :> 6 @@ "7" :> 7 @@ "8" :> 8 @@ "9" :> 9 @@ "A" :> 1 @@ "B" :> 2 @@
  "C" :> 3 @@ "D" :> 4 @@ "E" :> 5 @@ "F" :> 6 @@ "G" :> 7 @@ "H" :> 8 @@
  "J" :> 1 @@ "K" :> 2 @@ "L" :> 3 @@ "M" :> 4 @@ "N" :> 5 @@ "P" :> 7 @@
  "R" :> 9 @@ "S" :> 2 @@ "T" :> 3 @@ "U" :> 4 @@ "V" :> 5 @@ "W" :> 6 @@
  "X" :> 7 @@ "Y" :> 8 @@ "Z" :> 9
\* values[c] || 0
VinValueOf(c) == IF c \in DOMAIN VinValues THEN VinValues[c] ELSE 0
RECURSIVE VinSum(_, _)
\* the for loop of isValidVin from index i on (index 9 is skipped)
VinSum(upper, i) ==
  IF i > VinLength THEN 0
  ELSE (IF i = 9 THEN 0 ELSE VinValueOf(upper[i]) * VinWeights[i]) + VinSum(upper, i + 1)
\* variant: the older copy of the server, which has no alphabet test and
\* does not change the letter case
isValidVinNoAlphabet(vin) ==
  /\ Len(vin) = VinLength
  /\ LET checkDigit == VinSum(vin, 1) % 11
         expectedCheck == IF checkDigit = 10 THEN "X" ELSE DigitChars[checkDigit + 1]
     IN vin[9] = expectedCheck
isValidVin(vin) ==
  IF Len(vin) = 0 \/ Len(vin) # VinLength THEN FALSE
  \* /^[A-HJ-NPR-Z0-9]{17}$/i
  ELSE IF ~\A i \in 1..Len(vin) : toUpperChar(vin[i]) \in VinAlphabet THEN FALSE
  ELSE LET upper == toUpperCase(vin)
           checkDigit == VinSum(upper, 1) % 11
           expectedCheck == IF checkDigit = 10 THEN "X" ELSE DigitChars[checkDigit + 1]
       IN upper[9] = expectedCheck

\* ---- isValidVin applied to candidate strings ----
\* a candidate is one of the base strings with at most MaxEdits characters
\* replaced, possibly one character short or one character long
MaxEdits == 1
VinX == <<"1", "M", "8", "G", "D", "M", "9", "A", "X", "K", "P", "0", "4", "2", "7", "8", "8">>
VinBases == <<VinA, VinB, VinX>>
EditChars == {"0", "1", "5", "X", "A", "Z", "I", "O", "Q", "-"}
RECURSIVE EditsOf(_, _)
EditsOf(strings, n) ==
  IF n = 0 THEN strings
  ELSE LET fewer == EditsOf(strings, n - 1)
       IN fewer \cup {[v EXCEPT ![i] = c] : v \in fewer, i \in 1..VinLength, c \in EditChars}
VinInputs ==
  LET full == EditsOf({VinBases[i] : i \in 1..Len(VinBases)}, MaxEdits)
  IN full \cup {SubSeq(VinBases[i], 1, VinLength - 1) : i \in 1..Len(VinBases)}
          \cup {VinBases[i] \o <<"0">> : i \in 1..Len(VinBases)}
InitVinCheck == InitExtract(VinInputs)
\* vinValid: bestVin ? isValidVin(bestVin) : false
CheckVin ==
  /\ process = "extract"
  /\ scan.out = Undef
  /\ scan' = [scan EXCEPT !.out = Bool(isValidVin(scan.in))]
  /\ UNCHANGED <<process, env, map, disk, resp, cli, served>>
NextVinCheck == CheckVin
SpecVinCheck == InitVinCheck /\ [][NextVinCheck]_vars

\* ------------------------------------------------------------------------
\* server/app.ts: generic VIN candidates
\* ------------------------------------------------------------------------
\* raw.toUpperCase().replace(/[^A-Z0-9]/g, "").replace(/[IOQ]/g, "").slice(0, 17)
normalizeVin(raw) ==
  LET kept == SelectSeq(toUpperCase(raw),
                        LAMBDA c : c \in AlnumUpperChars /\ c \notin {"I", "O", "Q"})
  IN SubSeq(kept, 1, IF Len(kept) < VinLength THEN Len(kept) ELSE VinLength)
\* CHUNKY = /(?:[A-Z0-9][ -]?){11,25}/g
ChunkMin == 11
ChunkMax == 25
\* the greedy repetition of [A-Z0-9][ -]? from position i, n groups so far
RECURSIVE ChunkRun(_, _, _)
ChunkRun(U, i, n) ==
  IF n = ChunkMax \/ i > Len(U) \/ U[i] \notin AlnumUpperChars
  THEN [n |-> n, end |-> i]
  ELSE ChunkRun(U, IF i + 1 <= Len(U) /\ U[i + 1] \in {" ", "-"} THEN i + 2 ELSE i + 1, n + 1)
\* U.match(CHUNKY) || []: all matches, left to right
RECURSIVE MatchChunky(_, _)
MatchChunky(U, from) ==
  IF from > Len(U) THEN <<>>
  ELSE LET r == ChunkRun(U, from, 0)
       IN IF r.n >= ChunkMin
          THEN <<SubSeq(U, from, r.end - 1)>> \o MatchChunky(U, r.end)
          ELSE MatchChunky(U, from + 1)
\* U.split(/\r?\n/)
RECURSIVE SplitLines(_)
SplitLines(U) ==
  IF \E i \in 1..Len(U) : U[i] = "\n"
  THEN LET i == CHOOSE x \in 1..Len(U) : U[x] = "\n" /\ \A y \in 1..(x - 1) : U[y] # "\n"
           line == SubSeq(U, 1, i - 1)
       IN << IF Len(line) > 0 /\ line[Len(line)] = "\r"
             THEN SubSeq(line, 1, Len(line) - 1) ELSE line >>
          \o SplitLines(SubSeq(U, i + 1, Len(U)))
  ELSE <<U>>
\* near.flatMap(l => l.match(CHUNKY) || [])
RECURSIVE ChunksOfLines(_)
ChunksOfLines(lines) ==
  IF Len(lines) = 0 THEN <<>>
  ELSE MatchChunky(lines[1], 1) \o ChunksOfLines(Tail(lines))
\* Array.prototype.sort, which is stable: an element is preceded by those
\* that come before it and by the earlier ones it ties with
SortBy(items, Before(_, _)) ==
  LET n == Len(items)
      rank(i) == 1 + Cardinality({j \in 1..n :
                       \/ Before(items[j], items[i])
                       \/ ~Before(items[i], items[j]) /\ j < i})
  IN Tuple([p \in 1..n |-> items[CHOOSE i \in 1..n : rank(i) = p]])
\* the comparator of findVinCandidates is negative for (a, b)
VinOrder(a, b) ==
  LET a17 == IF Len(a) = VinLength THEN 1 ELSE 0
      b17 == IF Len(b) = VinLength THEN 1 ELSE 0
  IN IF b17 # a17 THEN b17 - a17 < 0
     ELSE IF Len(b) # Len(a) THEN Len(b) - Len(a) < 0
     ELSE FALSE
\* uniq, before it is sorted
VinHits(text) ==
  LET U == toUpperCase(text)
      lines == SplitLines(U)
      near == SelectSeq(lines, LAMBDA l : Test(<<WordEdge, Lit(<<"V", "I", "N">>), WordEdge>>, l, FALSE))
      rawHits == MatchChunky(U, 1) \o ChunksOfLines(near)
      normalized == Tuple([i \in 1..Len(rawHits) |-> normalizeVin(rawHits[i])])
  IN SetOf(SelectSeq(normalized, LAMBDA n : Len(n) >= ChunkMin))
\* variant: the candidates are returned in the order they were found
findVinCandidatesUnsorted(text) == VinHits(text)
findVinCandidates(text) == SortBy(VinHits(text), VinOrder)

findBestVinCandidate(candidates) ==
  LET validVins == SelectSeq(candidates, isValidVin)
      seventeenChar == SelectSeq(candidates, LAMBDA c : Len(c) = VinLength)
  IN IF Len(validVins) > 0 THEN Str(validVins[1])
     ELSE IF Len(seventeenChar) > 0 THEN Str(seventeenChar[1])
     ELSE IF Len(candidates) > 0 THEN Str(candidates[1]) ELSE Null

\* ---- the generic VIN path applied to OCR texts ----
VinFragments ==
  << <<"V", "I", "N", ":", " ">>,
     VinB,
     VinA,
     <<"\n">>,
     <<"A", "B", "C", "1", "2", "3", "D", "E", "F", "4", "5">>,
     <<"J", "T", "-", "1", "2", "3", "4", "-", "5", "6", "7", "8", "-", "9", "0", " ">>,
     <<"O">>,
     VinX >>
InitVinPick == InitExtract(TextsOf(VinFragments, MaxFrags))
\* POST /ocr/vin, generic path: findBestVinCandidate(findVinCandidates(text))
PickVin ==
  /\ process = "extract"
  /\ scan.out = Undef
  /\ LET genericCandidates == findVinCandidates(scan.in)
     IN scan' = [scan EXCEPT !.out = [candidates |-> genericCandidates,
                                       best |-> findBestVinCandidate(genericCandidates)]]
  /\ UNCHANGED <<process, env, map, disk, resp, cli, served>>
NextVinPick == PickVin
SpecVinPick == InitVinPick /\ [][NextVinPick]_vars

\* ------------------------------------------------------------------------
\* server/app.ts: licence-disc VIN extraction and POST /ocr/vin
\* ------------------------------------------------------------------------
\* scores and positions are counted in hundredths
Centi == 100
\* a Textract LINE block as the route keeps it; bbox is Geometry, reduced
\* to its BoundingBox, or Undef
OcrLine(text, confidence, bbox) == [text |-> text, confidence |-> confidence, bbox |-> bbox]
BoundingBox(Top, Height, Left, Width) ==
  [t |-> "box", v |-> [Top |-> Top, Height |-> Height, Left |-> Left, Width |-> Width]]
\* candidates.push({vin, raw, score, confidence, position}); raw and
\* confidence are never read again
DiscCandidate(vin, score, position) == [vin |-> vin, score |-> score, position |-> position]
\* lines.map(l => l.text).join("\n")
RECURSIVE JoinLines(_)
JoinLines(texts) ==
  IF Len(texts) = 0 THEN <<>>
  ELSE IF Len(texts) = 1 THEN texts[1]
  ELSE texts[1] \o <<"\n">> \o JoinLines(Tail(texts))
\* s.replace(/\s/g, "")
StripSpaces(t) == SelectSeq(t, LAMBDA c : ~IsSpace(c))
StartsWith(t, prefix) == Len(t) >= Len(prefix) /\ SubSeq(t, 1, Len(prefix)) = prefix
\* [A-HJ-NPR-Z0-9]{17}
VinRun == <<Rep(VinAlphabet, VinLength)>>
ColonOrDot == Opt(<<OneOf({":", "."})>>)
AnySpaces == Opt(<<Spaces>>)
vinKeywords ==
  << <<Lit(<<"C", "H", "A", "S", "S", "I", "S">>), AnySpaces, Lit(<<"N">>), Opt(<<Lit(<<"O">>)>>),
       ColonOrDot, AnySpaces>> \o VinRun \o <<WordEdge>>,
     <<Lit(<<"V", "I", "N">>), ColonOrDot, AnySpaces>> \o VinRun \o <<WordEdge>>,
     <<Lit(<<"V", "N">>), ColonOrDot, AnySpaces>> \o VinRun \o <<WordEdge>>,
     <<Lit(<<"V", "E", "H", "I", "C", "L", "E">>), AnySpaces, Lit(<<"I", "D">>),
       ColonOrDot, AnySpaces>> \o VinRun \o <<WordEdge>> >>
\* /\b([A-HJ-NPR-Z0-9]{17})\b/g
cleanVinPattern == <<WordEdge>> \o VinRun \o <<WordEdge>>
MinOf(set) == CHOOSE x \in set : \A y \in set : x <= y
MaxOf(set) == CHOOSE x \in set : \A y \in set : y <= x
\* the loop while ((match = pattern.exec(t)) !== null), or t.match of a
\* pattern with the g flag: the last 17 characters of every match, which
\* is what the one group of these patterns captures
RECURSIVE ExecVins(_, _, _, _)
VinEndingAt(pat, t, j, ignoreCase) ==
  <<SubSeq(t, j - VinLength, j - 1)>> \o ExecVins(pat, t, j, ignoreCase)
VinStartingIn(pat, t, starts, ignoreCase) ==
  IF starts = {} THEN <<>>
  ELSE VinEndingAt(pat, t, MaxOf(MatchEnds(t, pat, MinOf(starts), ignoreCase)), ignoreCase)
ExecVins(pat, t, from, ignoreCase) ==
  VinStartingIn(pat, t, {i \in from..(Len(t) + 1) : MatchEnds(t, pat, i, ignoreCase) # {}}, ignoreCase)
alreadyFound(candidates, vin) == \E i \in 1..Len(candidates) : candidates[i].vin = vin

AsCandidates(vins, score, position) ==
  Tuple([i \in 1..Len(vins) |-> DiscCandidate(vins[i], score, position)])
\* Method 1: the keyword patterns, one after the other
RECURSIVE KeywordMatches(_, _)
KeywordMatches(allText, n) ==
  IF n > Len(vinKeywords) THEN <<>>
  ELSE AsCandidates(SelectSeq(ExecVins(vinKeywords[n], allText, 1, TRUE),
                     LAMBDA v : /\ Len(v) = VinLength
                                /\ ~StartsWith(v, <<"V", "I", "N">>)
                                /\ ~StartsWith(v, <<"V", "N">>)
                                /\ ~StartsWith(v, <<"C", "H", "A", "S", "S", "I", "S">>)
                                /\ isValidVin(v)),
                    25 * Centi, "keyword_match")
       \o KeywordMatches(allText, n + 1)

\* Math.sqrt, exact where the boxes put the centre a whole number of
\* hundredths from the optimum
ISqrt(n) == CHOOSE r \in 0..150 : r * r <= n /\ n < (r + 1) * (r + 1)
calculateLicenceDiscPositionScore(x, y) ==
  LET optimalX == 50
      optimalY == 65
      distanceFromOptimal == ISqrt((x - optimalX) * (x - optimalX) + (y - optimalY) * (y - optimalY))
      score == 10 * Centi - distanceFromOptimal * 15
  IN IF score > 0 THEN score ELSE 0
\* bbox ? bbox.Top + bbox.Height / 2 : 0.6, and bbox ? bbox.Left + bbox.Width / 2 : 0.5
centerY(line) == IF line.bbox # Undef THEN line.bbox.v.Top + line.bbox.v.Height \div 2 ELSE 60
centerX(line) == IF line.bbox # Undef THEN line.bbox.v.Left + line.bbox.v.Width \div 2 ELSE 50

\* the score of a line's place on the disc
PositionScoreOf(line) == calculateLicenceDiscPositionScore(centerX(line), centerY(line))
\* Method 2
RECURSIVE PositionMatches(_)
PositionMatches(lines) ==
  IF Len(lines) = 0 THEN <<>>
  ELSE AsCandidates(SelectSeq(ExecVins(VinRun, StripSpaces(lines[1].text), 1, FALSE), isValidVin),
                    20 * Centi + PositionScoreOf(lines[1]), "center")
       \o PositionMatches(Tail(lines))
findVinByPosition(lines) ==
  PositionMatches(SelectSeq(lines, LAMBDA line :
    line.bbox = Undef \/ (centerY(line) >= 40 /\ centerY(line) <= 80)))

\* Method 3: each match is pushed unless a candidate already has its VIN
RECURSIVE PushNew(_, _, _, _)
PushNew(candidates, vins, score, position) ==
  IF Len(vins) = 0 THEN candidates
  ELSE LET vin == vins[1]
           keep == /\ Len(vin) = VinLength
                   /\ isValidVin(vin)
                   /\ ~alreadyFound(candidates, vin)
       IN PushNew(IF keep THEN Append(candidates, DiscCandidate(vin, score, position)) ELSE candidates,
                  Tail(vins), score, position)
PatternMatches(candidates, allText) ==
  PushNew(candidates,
          SelectSeq(ExecVins(cleanVinPattern, allText, 1, FALSE),
                    LAMBDA v : ~StartsWith(v, <<"V", "I", "N">>) /\ ~StartsWith(v, <<"V", "N">>)),
          20 * Centi, "pattern_match")

\* Method 4: line by line, spaces removed
FirstOf(vins) == IF Len(vins) > 0 THEN <<vins[1]>> ELSE <<>>
LineMatch(candidates, line) ==
  IF Test(<<Lit(<<"V", "I", "N">>), AnySpaces, Lit(<<"I", "D">>)>>, line.text, TRUE)
  THEN PushNew(candidates,
               FirstOf(ExecVins(<<Lit(<<"V", "I", "N">>)>> \o VinRun, StripSpaces(line.text), 1, TRUE)),
               22 * Centi, "keyword_line_extraction")
  ELSE PushNew(candidates, ExecVins(VinRun, StripSpaces(line.text), 1, FALSE),
               18 * Centi + PositionScoreOf(line), "line")
RECURSIVE LineMatches(_, _)
LineMatches(candidates, lines) ==
  IF Len(lines) = 0 THEN candidates
  ELSE LineMatches(LineMatch(candidates, lines[1]), Tail(lines))

\* Method 5: a VIN broken over two consecutive lines
RECURSIVE ReconstructFrom(_, _)
ReconstructFrom(lines, i) ==
  IF i > Len(lines) - 1 THEN <<>>
  ELSE AsCandidates(SelectSeq(FirstOf(ExecVins(VinRun, StripSpaces(lines[i].text \o lines[i + 1].text),
                                               1, FALSE)),
                              isValidVin),
                    18 * Centi, "reconstructed_exact")
       \o ReconstructFrom(lines, i + 1)
reconstructBrokenVinExact(lines) == ReconstructFrom(lines, 1)

\* the candidates of the five methods, in the order they are pushed
AllMethods(allText, lines) ==
  LineMatches(PatternMatches(KeywordMatches(allText, 1) \o findVinByPosition(lines), allText), lines)
  \o reconstructBrokenVinExact(lines)
\* candidates of all five methods, filtered, before they are sorted
cleanCandidates(text, lines) ==
  SelectSeq(AllMethods(toUpperCase(text), lines),
            LAMBDA c : /\ Len(c.vin) = VinLength
                       /\ ~StartsWith(c.vin, <<"V", "I", "N">>)
                       /\ ~StartsWith(c.vin, <<"V", "N">>)
                       /\ isValidVin(c.vin))
\* (a, b) => b.score - a.score is negative
ScoreOrder(a, b) == b.score - a.score < 0
\* variant: the filtered candidates are returned in the order of the methods
findVinFromLicenceDiscUnsorted(text, lines) == cleanCandidates(text, lines)
findVinFromLicenceDisc(text, lines) == SortBy(cleanCandidates(text, lines), ScoreOrder)

\* ---- POST /ocr/vin applied to OCR lines ----
MaxLines == 2
CentreBox == BoundingBox(60, 10, 30, 40)
UpperBox == BoundingBox(20, 10, 60, 40)
DiscLines ==
  << OcrLine(<<"V", "I", "N", ":", " ", "1", "H", "G", "C", "M", "8", "2", "6", "3", "3", "A", "0", "0", "4", "3", "5", "2">>, 95, Undef),
     OcrLine(<<"1", "H", "G", "C", "M", "8", "2", "6", "3", "3", "A", "0", "0", "4", "3", "5", "2">>, 95, CentreBox),
     OcrLine(<<"W", "D", "D", "2", "0", "4", "0", "0", "8", "2", "R", "0", "8", "8", "8", "6", "6">>, 95, Undef),
     OcrLine(<<"1", "H", "G", "C", "M", "8", "2", "6">>, 95, UpperBox),
     OcrLine(<<"3", "3", "A", "0", "0", "4", "3", "5", "2">>, 60, UpperBox),
     OcrLine(<<"C", "H", "A", "S", "S", "I", "S", " ", "N", "O", " ", "1", "M", "8", "G", "D", "M", "9", "A", "X", "K", "P", "0", "4", "2", "7", "8", "8">>, 60, UpperBox),
     OcrLine(<<"1", "M", "8", "G", " ", "D", "M", "9", "A", " ", "X", "K", "P", "0", " ", "4", "2", "7", "8", "8">>, 95, Undef),
     OcrLine(<<"V", "I", "N", " ", "I", "D", " ", "V", "I", "N", " ", "1", "M", "8", "G", "D", "M", "9", "A", "X", "K", "P", "0", "4", "2", "7", "8", "8", "9">>, 95, UpperBox),
     OcrLine(<<"J", "T", "-", "1", "2", "3", "4", "-", "5", "6", "7", "8", "-", "9", "0">>, 95, Undef),
     OcrLine(<<"1", "H", "G", "C", "M", "8", "2", "6", "3", "3", "A", "0", "0", "4", "3", "5", "2">>, 60, UpperBox),
     OcrLine(<<"1", "H", "G", "C", "M", " ", "8", "2", "6", "3", "3", "A", "0", "0", "4", "3", "5", "2">>, 95, UpperBox) >>
RECURSIVE LinesOf(_)
LinesOf(n) ==
  IF n = 0 THEN {<<>>}
  ELSE LET shorter == LinesOf(n - 1)
       IN shorter \cup {ls \o <<DiscLines[i]>> : ls \in shorter, i \in 1..Len(DiscLines)}
Take(items, n) == SubSeq(items, 1, IF Len(items) < n THEN Len(items) ELSE n)
InitOcrVin == InitExtract(LinesOf(MaxLines))
LineTexts(lines) == Tuple([i \in 1..Len(lines) |-> lines[i].text])
VinsOf(candidates) == Tuple([i \in 1..Len(candidates) |-> candidates[i].vin])
\* Method 2 of the route: findVinCandidates over the high-confidence text
\* and, if that finds nothing, over all of it
FallbackCandidates(first, allText) == IF Len(first) = 0 THEN findVinCandidates(allText) ELSE first
VinResult(bestVin, candidates, extractionMethod, licenceDiscCandidates) ==
  [ok |-> TRUE,
   vin |-> bestVin,
   vinValid |-> IF bestVin # Null THEN isValidVin(bestVin.v) ELSE FALSE,
   candidates |-> Take(candidates, 5),
   extractionMethod |-> extractionMethod,
   licenceDiscCandidates |-> licenceDiscCandidates]
GenericResult(genericCandidates, bestVin) ==
  IF bestVin # Null
  THEN VinResult(bestVin, Take(genericCandidates, 5), "generic_fallback", <<>>)
  ELSE VinResult(Null, <<>>, "none", <<>>)
GenericFallback(genericCandidates) ==
  GenericResult(genericCandidates, findBestVinCandidate(genericCandidates))
VinResponse(lines, licenceDiscCandidates) ==
  IF Len(licenceDiscCandidates) > 0
  THEN VinResult(Str(licenceDiscCandidates[1].vin), Take(VinsOf(licenceDiscCandidates), 5),
                 "licence_disc", licenceDiscCandidates)
  ELSE GenericFallback(FallbackCandidates(
         findVinCandidates(JoinLines(LineTexts(SelectSeq(lines, LAMBDA l : l.confidence > 80)))),
         JoinLines(LineTexts(lines))))
RECURSIVE SumOf(_)
SumOf(ns) == IF Len(ns) = 0 THEN 0 ELSE ns[1] + SumOf(Tail(ns))
\* avgConfidence is the mean confidence of the OCR lines, 0 without lines;
\* the response carries Math.round(avgConfidence * 100) / 100, in hundredths
LineConfidence(lines) ==
  IF Len(lines) > 0
  THEN (2 * Centi * SumOf(Tuple([i \in 1..Len(lines) |-> lines[i].confidence])) + Len(lines))
         \div (2 * Len(lines))
  ELSE 0
WithConfidence(result, lines) == result @@ [confidence |-> LineConfidence(lines)]
\* the route after Textract has answered; extractionMethod is the route's
\* local, which it logs
OcrVin ==
  /\ process = "extract"
  /\ scan.out = Undef
  /\ scan' = [scan EXCEPT !.out =
               WithConfidence(
                 VinResponse(scan.in, findVinFromLicenceDisc(JoinLines(LineTexts(scan.in)), scan.in)),
                 scan.in)]
  /\ UNCHANGED <<process, env, map, disk, resp, cli, served>>
NextOcrVin == OcrVin
SpecOcrVin == InitOcrVin /\ [][NextOcrVin]_vars

\* ------------------------------------------------------------------------
\* server/app.ts: odometer candidates and POST /ocr/odometer
\* ------------------------------------------------------------------------
\* [,.\s]
Separators == {",", ".", " ", "\n", "\t", "\r"}
OptSeparator == Opt(<<OneOf(Separators)>>)
\* the number patterns, each split into its group and what follows it:
\*   /\b(\d{1,3}[,.\s]?\d{3}[,.\s]?\d{3})\b/g
\*   /\b(\d{4,7})\b/g
\*   /(\d+)\s*km\b/gi
\*   /(\d{1,3}(?:[,.\s]\d{3})+)\b/g       (extractOdometerFromLine only)
OdoPatterns ==
  << [group |-> <<WordEdge, Range(Digits, 1, 3), OptSeparator, Rep(Digits, 3), OptSeparator, Rep(Digits, 3)>>,
      rest |-> <<WordEdge>>],
     [group |-> <<WordEdge, Range(Digits, 4, 7)>>, rest |-> <<WordEdge>>],
     [group |-> <<AtLeast(Digits, 1)>>, rest |-> <<AnySpaces, Lit(<<"K", "M">>), WordEdge>>],
     [group |-> <<Range(Digits, 1, 3), Plus(<<OneOf(Separators), Rep(Digits, 3)>>)>>, rest |-> <<WordEdge>>] >>
\* /\b(km|miles|mi|odometer|odo|total|mileage)\b/i
odometerKeywords ==
  <<WordEdge,
    Alt(<< <<Lit(<<"K", "M">>)>>, <<Lit(<<"M", "I", "L", "E", "S">>)>>, <<Lit(<<"M", "I">>)>>,
           <<Lit(<<"O", "D", "O", "M", "E", "T", "E", "R">>)>>, <<Lit(<<"O", "D", "O">>)>>,
           <<Lit(<<"T", "O", "T", "A", "L">>)>>, <<Lit(<<"M", "I", "L", "E", "A", "G", "E">>)>> >>),
    WordEdge>>
\* /\b(km\/h|mph|speed|kph)\b/i
speedKeywords ==
  <<WordEdge,
    Alt(<< <<Lit(<<"K", "M", "/", "H">>)>>, <<Lit(<<"M", "P", "H">>)>>,
           <<Lit(<<"S", "P", "E", "E", "D">>)>>, <<Lit(<<"K", "P", "H">>)>> >>),
    WordEdge>>
\* /\b(km\/h|mph|kph|speed)\b/i.test(text) || /\b[0-9]{1,3}\s*(km\/h|mph)\b/i.test(text)
looksLikeSpeedometer(text) ==
  \/ Test(speedKeywords, text, TRUE)
  \/ Test(<<WordEdge, Range(Digits, 1, 3), AnySpaces,
            Alt(<< <<Lit(<<"K", "M", "/", "H">>)>>, <<Lit(<<"M", "P", "H">>)>> >>), WordEdge>>, text, TRUE)
\* /trip|time|temp/i
TripTimeTemp ==
  <<Alt(<< <<Lit(<<"T", "R", "I", "P">>)>>, <<Lit(<<"T", "I", "M", "E">>)>>, <<Lit(<<"T", "E", "M", "P">>)>> >>)>>

\* the loop while ((match = pattern.exec(t)) !== null): match[1] of every
\* match, left to right, each quantifier taking as much as it can
GroupEnds(pat, t, i, ignoreCase) ==
  {j \in MatchEnds(t, pat.group, i, ignoreCase) : MatchEnds(t, pat.rest, j, ignoreCase) # {}}
RECURSIVE ExecGroups(_, _, _, _)
GroupBetween(pat, t, i, j, ignoreCase) ==
  <<SubSeq(t, i, j - 1)>> \o ExecGroups(pat, t, MaxOf(MatchEnds(t, pat.rest, j, ignoreCase)), ignoreCase)
GroupStartingAt(pat, t, i, ignoreCase) ==
  GroupBetween(pat, t, i, MaxOf(GroupEnds(pat, t, i, ignoreCase)), ignoreCase)
GroupStartingIn(pat, t, starts, ignoreCase) ==
  IF starts = {} THEN <<>> ELSE GroupStartingAt(pat, t, MinOf(starts), ignoreCase)
ExecGroups(pat, t, from, ignoreCase) ==
  GroupStartingIn(pat, t, {i \in from..Len(t) : GroupEnds(pat, t, i, ignoreCase) # {}}, ignoreCase)
RECURSIVE DigitsValue(_)
DigitsValue(cleaned) ==
  IF Len(cleaned) = 0 THEN 0
  ELSE 10 * DigitsValue(SubSeq(cleaned, 1, Len(cleaned) - 1))
       + (CHOOSE d \in 0..9 : DigitChars[d + 1] = cleaned[Len(cleaned)])
RECURSIVE DropZeros(_)
DropZeros(cleaned) ==
  IF Len(cleaned) > 1 /\ cleaned[1] = "0" THEN DropZeros(Tail(cleaned)) ELSE cleaned
\* parseInt(cleaned, 10) of a string of digits; a number of ten digits or
\* more, which only ever fails the range test, is counted as 10^9
parseInt(cleaned) ==
  IF Len(DropZeros(cleaned)) > 9 THEN 1000000000 ELSE DigitsValue(DropZeros(cleaned))
\* raw.replace(/[,.\s]/g, "")
cleanedOf(raw) == SelectSeq(raw, LAMBDA c : c \notin Separators)
Includes(t, c) == \E i \in 1..Len(t) : t[i] = c

MIN_ODO == 5000
MAX_ODO == 300000
isValidOdometerReading(value) ==
  /\ ~(value < MIN_ODO \/ value > MAX_ODO)
  /\ ~(value < 10 /\ value > 0)
  /\ Len(NatChars(value)) # 1

\* in hundredths of a point
calculateOdometerScore(value, raw, hasKeyword) ==
  LET digits == Len(NatChars(value))
      timeLike == Test(<<Start, Range(Digits, 1, 2), Lit(<<":">>), Rep(Digits, 2)>>, raw, FALSE)
  IN Centi * ( (IF digits >= 4 /\ digits <= 6 THEN 10
                ELSE IF digits = 3 \/ digits = 7 THEN 5 ELSE 1)
             + (IF hasKeyword THEN 8 ELSE 0)
             + (IF value >= 5000 /\ value <= 500000 THEN 5 ELSE 0)
             - (IF value % 1000 = 0 THEN 2 ELSE 0)
             + (IF Includes(raw, ",") \/ Includes(raw, ".") THEN 3 ELSE 0)
             - (IF Includes(raw, ":") THEN 10 ELSE 0)
             - (IF timeLike THEN 15 ELSE 0) )

OdoCandidate(value, raw, score, source, confidence) ==
  [value |-> value, raw |-> raw, score |-> score, source |-> source, confidence |-> confidence]
\* value = parseInt(cleaned, 10)
ValueOf(raw) == parseInt(cleanedOf(raw))
\* times is the priorityMultiplier in halves
Scored(raws, hasKeyword, times, source, confidence) ==
  Tuple([i \in 1..Len(raws) |->
          OdoCandidate(ValueOf(raws[i]), raws[i],
                       (calculateOdometerScore(ValueOf(raws[i]), raws[i], hasKeyword) * times) \div 2,
                       source, confidence)])
\* the candidates of patterns n..last over one text, pattern by pattern
RECURSIVE PatternCandidates(_, _, _, _, _, _, _)
PatternCandidates(text, n, last, hasKeyword, times, source, confidence) ==
  IF n > last THEN <<>>
  ELSE Scored(SelectSeq(ExecGroups(OdoPatterns[n], text, 1, n = 3),
                        LAMBDA raw : isValidOdometerReading(ValueOf(raw))),
              hasKeyword, times, source, confidence)
       \o PatternCandidates(text, n + 1, last, hasKeyword, times, source, confidence)
\* text.split("\n")
RECURSIVE SplitNewline(_)
SplitNewline(t) ==
  IF \E i \in 1..Len(t) : t[i] = "\n"
  THEN LET i == CHOOSE x \in 1..Len(t) : t[x] = "\n" /\ \A y \in 1..(x - 1) : t[y] # "\n"
       IN <<SubSeq(t, 1, i - 1)>> \o SplitNewline(SubSeq(t, i + 1, Len(t)))
  ELSE <<t>>
\* priorityMultiplier is 1.5 or 1.0, counted in halves
TextLineCandidates(line, hasOdoKeyword) ==
  PatternCandidates(line, 1, 3, hasOdoKeyword, IF hasOdoKeyword THEN 3 ELSE 2, "text_pattern", 0)
RECURSIVE TextCandidates(_)
TextCandidates(lines) ==
  IF Len(lines) = 0 THEN <<>>
  ELSE (IF Test(speedKeywords, lines[1], TRUE) THEN <<>>
        ELSE TextLineCandidates(lines[1], Test(odometerKeywords, lines[1], TRUE)))
       \o TextCandidates(Tail(lines))
findOdometerCandidates(text) == TextCandidates(SplitNewline(text))

extractOdometerFromLine(text, confidence) ==
  IF looksLikeSpeedometer(text) \/ Test(TripTimeTemp, text, TRUE) THEN <<>>
  ELSE PatternCandidates(text, 1, 4, looksLikeSpeedometer(text), 2, "line_extraction", confidence)

\* sequence.map(s => s.text).join("")
RECURSIVE JoinWords(_, _)
JoinWords(ws, sep) ==
  IF Len(ws) = 0 THEN <<>>
  ELSE IF Len(ws) = 1 THEN ws[1]
  ELSE ws[1] \o sep \o JoinWords(Tail(ws), sep)
\* /^\d{1,3}$/
isDigitWord(text) == Test(<<Start, Range(Digits, 1, 3), End>>, text, FALSE)
WordTexts(sequence) == Tuple([k \in 1..Len(sequence) |-> sequence[k].text])
Grouped(sequence, combined, value) ==
  IF Len(sequence) >= 4 /\ isValidOdometerReading(value)
  THEN <<OdoCandidate(value, JoinWords(WordTexts(sequence), <<" ">>),
                      calculateOdometerScore(value, combined, FALSE) + 2 * Centi,
                      "digit_grouping",
                      SumOf(Tuple([k \in 1..Len(sequence) |-> sequence[k].confidence]))
                        \div Len(sequence))>>
  ELSE <<>>
GroupOf(sequence, combined) == Grouped(sequence, combined, parseInt(combined))
RECURSIVE GroupFrom(_, _)
GroupFrom(digitWords, i) ==
  IF i > Len(digitWords) - 2 THEN <<>>
  ELSE GroupOf(SubSeq(digitWords, i, IF i + 6 < Len(digitWords) THEN i + 6 ELSE Len(digitWords)),
               JoinWords(WordTexts(SubSeq(digitWords, i,
                           IF i + 6 < Len(digitWords) THEN i + 6 ELSE Len(digitWords))), <<>>))
       \o GroupFrom(digitWords, i + 1)
groupConsecutiveDigits(words) ==
  GroupFrom(SelectSeq(words, LAMBDA w : isDigitWord(w.text) /\ w.confidence > 60), 1)

\* the Map keeps a value at the place where it was first seen and swaps
\* in a later candidate of that value whose score is higher
SeenWith(seen, candidate) ==
  IF \E i \in 1..Len(seen) : seen[i].value = candidate.value
  THEN Tuple([i \in 1..Len(seen) |->
               IF seen[i].value = candidate.value /\ seen[i].score < candidate.score
               THEN candidate ELSE seen[i]])
  ELSE Append(seen, candidate)
RECURSIVE removeDuplicateReadings(_)
removeDuplicateReadings(candidates) ==
  IF Len(candidates) = 0 THEN <<>>
  ELSE SeenWith(removeDuplicateReadings(SubSeq(candidates, 1, Len(candidates) - 1)),
                candidates[Len(candidates)])

\* a Textract LINE block with its WORD blocks: Textract's LINE text is its
\* words joined by single spaces, and here a word has its line's confidence
OdoLine(words, confidence) == [text |-> JoinWords(words, <<" ">>), words |-> words, confidence |-> confidence]
RECURSIVE WordsOfLines(_)
WordsOfLines(lines) ==
  IF Len(lines) = 0 THEN <<>>
  ELSE Tuple([k \in 1..Len(lines[1].words) |->
               [text |-> lines[1].words[k], confidence |-> lines[1].confidence]])
       \o WordsOfLines(Tail(lines))
\* s.trim()
RECURSIVE TrimText(_)
TrimText(t) ==
  IF Len(t) > 0 /\ IsSpace(t[1]) THEN TrimText(Tail(t))
  ELSE IF Len(t) > 0 /\ IsSpace(t[Len(t)]) THEN TrimText(SubSeq(t, 1, Len(t) - 1))
  ELSE t
RECURSIVE LineCandidates(_)
LineCandidates(lines) ==
  IF Len(lines) = 0 THEN <<>>
  ELSE (IF looksLikeSpeedometer(lines[1].text) THEN <<>>
        ELSE extractOdometerFromLine(lines[1].text, lines[1].confidence))
       \o LineCandidates(Tail(lines))
\* the score below which the line and digit-grouping strategies are run
AdvancedBelow == 28
\* Math.round(Math.min(100, confidence * 0.7 + score * 0.3)) / 100, in hundredths
ResponseConfidence(best) ==
  LET tenThousandths == best.confidence * 7000 + best.score * 30
      capped == IF tenThousandths > 1000000 THEN 1000000 ELSE tenThousandths
  IN (capped + 5000) \div 10000
TopFive(top) ==
  Tuple([i \in 1..Len(top) |->
          [value |-> top[i].value, raw |-> top[i].raw, score |-> top[i].score, source |-> top[i].source]])
Responded(candidates, sortedCandidates, advancedHeuristicsRan) ==
  [ok |-> TRUE,
   km |-> IF Len(sortedCandidates) > 0 THEN IntNum(sortedCandidates[1].value) ELSE Null,
   candidates |-> TopFive(Take(sortedCandidates, 5)),
   confidence |-> IF Len(sortedCandidates) > 0 THEN ResponseConfidence(sortedCandidates[1]) ELSE 0,
   pool |-> candidates,
   advancedHeuristicsRan |-> advancedHeuristicsRan]
Selected(candidates, advancedHeuristicsRan) ==
  Responded(candidates, SortBy(removeDuplicateReadings(candidates), ScoreOrder), advancedHeuristicsRan)
Pooled(lines, textCandidates, advancedHeuristicsRan) ==
  Selected(IF advancedHeuristicsRan
           THEN textCandidates
                \o LineCandidates(SelectSeq(lines, LAMBDA l : l.confidence > 70))
                \o groupConsecutiveDigits(WordsOfLines(lines))
           ELSE textCandidates,
           advancedHeuristicsRan)
\* textBest is null or scores below AdvancedBelow
TextWeak(textCandidates) ==
  \A i \in 1..Len(textCandidates) : textCandidates[i].score < AdvancedBelow * Centi
AfterText(lines, textCandidates, skipping) ==
  Pooled(lines, textCandidates, ~skipping \/ TextWeak(textCandidates))
\* the response of the route; skipping is whether the advanced strategies
\* are left out when the text patterns already scored AdvancedBelow
OdometerResponse(lines, skipping) ==
  AfterText(lines, findOdometerCandidates(TrimText(JoinLines(LineTexts(lines)))), skipping)

\* ---- POST /ocr/odometer applied to OCR lines ----
OdoLines ==
  << OdoLine(<<<<"S", "P", "E", "E", "D">>, <<"1", "2", "0">>, <<"k", "m", "/", "h">>>>, 95),
     OdoLine(<<<<"0">>, <<"2", "0">>, <<"4", "0">>, <<"6", "0">>, <<"k", "m", "/", "h">>>>, 95),
     OdoLine(<<<<"O", "D", "O">>, <<"1", "2", "3", "4", "5", "6">>, <<"k", "m">>>>, 95),
     OdoLine(<<<<"1">>, <<"4">>, <<"7">>, <<"8">>, <<"9">>, <<"5">>>>, 95),
     OdoLine(<<<<"1", "2", "3", "4", "5", "6">>>>, 95),
     OdoLine(<<<<"2", "3", "4", "5", "6", "7">>>>, 95),
     OdoLine(<<<<"T", "R", "I", "P">>, <<"1", "2", "3", "4", "5">>>>, 95),
     OdoLine(<<<<"1", "4", "7", ",", "8", "9", "5">>, <<"k", "m">>>>, 95),
     OdoLine(<<<<"1", "2", "0", "0", "0">>>>, 60) >>
RECURSIVE OdoLinesOf(_)
OdoLinesOf(n) ==
  IF n = 0 THEN {<<>>}
  ELSE LET shorter == OdoLinesOf(n - 1)
       IN shorter \cup {ls \o <<OdoLines[i]>> : ls \in shorter, i \in 1..Len(OdoLines)}
InitOcrOdometer == InitExtract(OdoLinesOf(MaxLines))
OcrOdometer ==
  /\ process = "extract"
  /\ scan.out = Undef
  /\ scan' = [scan EXCEPT !.out = OdometerResponse(scan.in, TRUE)]
  /\ UNCHANGED <<process, env, map, disk, resp, cli, served>>
NextOcrOdometer == OcrOdometer
SpecOcrOdometer == InitOcrOdometer /\ [][NextOcrOdometer]_vars

\* ------------------------------------------------------------------------
\* ingest/dekra/extractors.ts: the fields of a report text
\* ------------------------------------------------------------------------
\* VIN_RE = /\b([A-HJ-NPR-Z0-9]{17})\b/, then the labelled lines
VIN_RE == <<WordEdge, Rep(VinAlphabet, VinLength), WordEdge>>
VinLabelled ==
  <<Lit(<<"V", "I", "N">>), Opt(<<Plus(<<NoneOf(VinAlphabet)>>)>>), Rep(VinAlphabet, VinLength)>>
FirstStart(t, pat, ignoreCase) ==
  MinOf({i \in 1..(Len(t) + 1) : MatchEnds(t, pat, i, ignoreCase) # {}} \cup {Len(t) + 2})
LabelledVinAt(line, i) ==
  IF i > Len(line) + 1 THEN Undef
  ELSE SubSeq(line, MaxOf(MatchEnds(line, VinLabelled, i, TRUE)) - VinLength,
              MaxOf(MatchEnds(line, VinLabelled, i, TRUE)) - 1)
RECURSIVE LabelledVin(_)
LabelledVin(lines) ==
  IF Len(lines) = 0 THEN Undef
  ELSE IF Test(VinLabelled, lines[1], TRUE)
       THEN LabelledVinAt(lines[1], FirstStart(lines[1], VinLabelled, TRUE))
       ELSE LabelledVin(Tail(lines))
VinAt(text, i) ==
  IF i > Len(text) + 1 THEN LabelledVin(SplitLines(text)) ELSE SubSeq(text, i, i + VinLength - 1)
extractVin(text) == VinAt(text, FirstStart(text, VIN_RE, FALSE))

\* parseFloat of a text that starts with a digit: its digits, and the
\* digits after a point; the value is counted in thousandths, with the
\* fourth decimal kept apart
DigitRun(s) ==
  SubSeq(s, 1, MaxOf({n \in 0..Len(s) : \A j \in 1..n : s[j] \in Digits}))
FractionOf(s, n) ==
  IF Len(s) > n /\ s[n + 1] = "." THEN DigitRun(SubSeq(s, n + 2, Len(s))) ELSE <<>>
DigitAt(s, i) == IF i <= Len(s) THEN DigitsValue(<<s[i]>>) ELSE 0
FloatOf(whole, fraction) ==
  Num(DigitsValue(whole) * Milli + 100 * DigitAt(fraction, 1) + 10 * DigitAt(fraction, 2)
        + DigitAt(fraction, 3),
      DigitAt(fraction, 4))
parseFloat(s) == FloatOf(DigitRun(s), FractionOf(s, Len(DigitRun(s))))

\* ODO_RE = /(Km\s*Reading|Odometer|Mileage)\s*:?\s*([0-9][0-9,.\s]+)\s*(KM|km|Miles|mi)?/i
OdoLabel ==
  <<Alt(<< <<Lit(<<"K", "M">>), AnySpaces, Lit(<<"R", "E", "A", "D", "I", "N", "G">>)>>,
           <<Lit(<<"O", "D", "O", "M", "E", "T", "E", "R">>)>>,
           <<Lit(<<"M", "I", "L", "E", "A", "G", "E">>)>> >>),
    AnySpaces, Opt(<<Lit(<<":">>)>>), AnySpaces>>
OdoDigits == <<OneOf(Digits), AtLeast(Digits \cup {",", ".", " ", "\n", "\t", "\r"}, 1)>>
OdoMiles == <<Lit(<<"M", "I">>)>>
ODO_RE == OdoLabel \o OdoDigits
\* Math.round(km) of a value in thousandths
RoundKm(n) == IntNum((n.v.m + Milli \div 2) \div Milli)
\* Math.round(val * 1.60934): val is q thousands, r units and f thousandths
\* of a mile, and the sum is made in hundred-thousandths of a kilometre
MilesSum(q, r, f) ==
  IntNum(q * 1609 + ((q * 34000 + r * 160934 + ((f * 160934) \div Milli) + 50000) \div 100000))
MilesToKm(n) ==
  MilesSum((n.v.m \div Milli) \div 1000, (n.v.m \div Milli) % 1000, n.v.m % Milli)
OdoValue(raw, miles) ==
  IF miles THEN MilesToKm(parseFloat(raw)) ELSE RoundKm(parseFloat(raw))
\* m[2] is what the digits take, as much as they can; m[3] follows it
OdoBetween(text, from, to) ==
  OdoValue(SelectSeq(SubSeq(text, from, to - 1), LAMBDA c : c \notin {",", " "}),
           MatchEnds(text, OdoMiles, to, TRUE) # {})
OdoFrom(text, from) == OdoBetween(text, from, MaxOf(MatchEnds(text, OdoDigits, from, TRUE)))
OdoAt(text, i) ==
  IF i > Len(text) + 1 THEN Null
  ELSE OdoFrom(text, MinOf({j \in MatchEnds(text, OdoLabel, i, TRUE) :
                              MatchEnds(text, OdoDigits, j, TRUE) # {}}))
extractOdometerKm(text) == OdoAt(text, FirstStart(text, ODO_RE, TRUE))

\* norm: s.replace(/[ \t]+/g, " ").replace(/\s+\n/g, "\n").replace(/\n{3,}/g, "\n\n").trim()
Indices(s) == Tuple([i \in 1..Len(s) |-> i])
Picked(s, keep) == Tuple([j \in 1..Len(keep) |-> s[keep[j]]])
\* a run of blanks and tabs becomes one blank
CollapseBlanks(s) ==
  Picked(Tuple([i \in 1..Len(s) |-> IF s[i] = "\t" THEN " " ELSE s[i]]),
         SelectSeq(Indices(s),
                   LAMBDA i : ~(s[i] \in {" ", "\t"} /\ i > 1 /\ s[i - 1] \in {" ", "\t"})))
\* white space up to the last newline it runs into becomes that newline
SquashBeforeNewline(s) ==
  Picked(s, SelectSeq(Indices(s),
                      LAMBDA i : ~(/\ IsSpace(s[i])
                                   /\ \E l \in (i + 1)..Len(s) :
                                        s[l] = "\n" /\ \A k \in i..l : IsSpace(s[k]))))
\* three newlines or more become two
CapNewlines(s) ==
  Picked(s, SelectSeq(Indices(s),
                      LAMBDA i : ~(i > 2 /\ s[i] = "\n" /\ s[i - 1] = "\n" /\ s[i - 2] = "\n")))
norm(s) == TrimText(CapNewlines(SquashBeforeNewline(CollapseBlanks(s))))

\* TYRE_HINT_RE = /(Tyre|Tire|Tread|Tyre\s*Specification|Tyre\s*Measurement)/i
TYRE_HINT_RE ==
  <<Alt(<< <<Lit(<<"T", "Y", "R", "E">>)>>, <<Lit(<<"T", "I", "R", "E">>)>>,
           <<Lit(<<"T", "R", "E", "A", "D">>)>>,
           <<Lit(<<"T", "Y", "R", "E">>), AnySpaces,
             Lit(<<"S", "P", "E", "C", "I", "F", "I", "C", "A", "T", "I", "O", "N">>)>>,
           <<Lit(<<"T", "Y", "R", "E">>), AnySpaces,
             Lit(<<"M", "E", "A", "S", "U", "R", "E", "M", "E", "N", "T">>)>> >>)>>
\* /(\d+(?:\.\d+)?)\s*mm/gi
TyreMm ==
  [group |-> <<AtLeast(Digits, 1), Opt(<<Lit(<<".">>), AtLeast(Digits, 1)>>)>>,
   rest |-> <<AnySpaces, Lit(<<"M", "M">>)>>]
\* the lines after a heading: up to three, up to an empty one, up to and
\* with the first that mentions mm
RECURSIVE Lookahead(_, _, _)
Lookahead(lines, idx, offset) ==
  IF offset > 3 \/ idx + offset > Len(lines) THEN <<>>
  ELSE IF Len(TrimText(lines[idx + offset])) = 0 THEN <<>>
  ELSE <<lines[idx + offset]>>
       \o (IF Test(<<Lit(<<"M", "M">>)>>, lines[idx + offset], TRUE) THEN <<>>
           ELSE Lookahead(lines, idx, offset + 1))
\* variant: every line is searched, under a tyre heading or not
BlockLinesAll(lines, idx) == SubSeq(lines, idx, Len(lines))
RECURSIVE BlockLines(_, _)
BlockLines(lines, idx) ==
  IF idx > Len(lines) THEN <<>>
  ELSE (IF Test(TYRE_HINT_RE, lines[idx], TRUE)
        THEN <<lines[idx]>> \o Lookahead(lines, idx, 1) ELSE <<>>)
       \o BlockLines(lines, idx + 1)
DepthAt(mm, i) == IF i <= Len(mm) THEN parseFloat(mm[i]) ELSE Null
DepthsOf(mm) == TyreDepths(DepthAt(mm, 1), DepthAt(mm, 2), DepthAt(mm, 3), DepthAt(mm, 4))
extractTyres(text) ==
  DepthsOf(ExecGroups(TyreMm, JoinLines(BlockLines(SplitNewline(norm(text)), 1)), 1, TRUE))

\* mapToPassportDraft(text, opts): what the extractors find in the text
ExtractedFrom(vin, km, tyres, dtc) ==
  Extracted(IF vin = Undef THEN Undef ELSE Str(vin), km, tyres, dtc.status, dtc.codes)
extractAll(text) ==
  ExtractedFrom(extractVin(text), extractOdometerKm(text), extractTyres(text), extractDtc(text))

\* ---- mapToPassportDraft applied to report texts ----
\* the lines of the sample report, with the last line also on its own; a
\* report text is these lines with at most MaxDropped of them left out
MaxDropped == 3
ReportLines ==
  << <<"D", "E", "K", "R", "A", " ", "W", "e", " ", "B", "u", "y", " ", "C", "a", "r", "s", " ",
        "-", " ", "B", "r", "a", "c", "k", "e", "n", "g", "a", "t", "e">>,
     <<"I", "n", "s", "p", "e", "c", "t", "i", "o", "n", " ", "D", "a", "t", "e", ":", " ", "2",
        "9", "/", "0", "4", "/", "2", "0", "2", "4">>,
     <<"V", "I", "N", " ", "W", "D", "D", "2", "0", "4", "0", "0", "8", "2", "R", "0", "8", "8",
        "8", "6", "6">>,
     <<"K", "m", " ", "R", "e", "a", "d", "i", "n", "g", " ", "2", "3", "8", ",", "5", "7", "4",
        " ", "K", "M">>,
     <<"T", "y", "r", "e", " ", "S", "p", "e", "c", "i", "f", "i", "c", "a", "t", "i", "o", "n",
        " ", "&", " ", "M", "e", "a", "s", "u", "r", "e", "m", "e", "n", "t">>,
     <<"F", "L", " ", "1", " ", "m", "m", " ", "F", "R", " ", "0", " ", "m", "m", " ", "R", "L",
        " ", "2", " ", "m", "m", " ", "R", "R", " ", "2", " ", "m", "m">>,
     <<"D", "i", "a", "g", "n", "o", "s", "t", "i", "c", ":", " ", "n", "o", " ", "a", "c", "t",
        "i", "v", "e", " ", "e", "r", "r", "o", "r", " ", "m", "e", "s", "s", "a", "g", "e",
        "s">>,
     <<"n", "o", " ", "a", "c", "t", "i", "v", "e", " ", "e", "r", "r", "o", "r", " ", "m", "e",
        "s", "s", "a", "g", "e", "s">> >>
KeptLines(kept) == SelectSeq(Tuple([i \in 1..Len(ReportLines) |-> i]), LAMBDA i : i \in kept)
ReportText(kept) == JoinLines(Tuple([i \in 1..Len(kept) |-> ReportLines[kept[i]]]))
\* scan.in: the numbers of the lines of the text
InitMap ==
  InitExtract({KeptLines(kept) : kept \in {k \in SUBSET (1..Len(ReportLines)) :
                                            Cardinality(k) >= Len(ReportLines) - MaxDropped}})
MapText ==
  /\ process = "extract"
  /\ scan.out = Undef
  /\ scan' = [scan EXCEPT !.out =
               mapToPassportDraft(extractAll(ReportText(scan.in)), Str(Lot1), Undef, Undef, Time1)]
  /\ UNCHANGED <<process, env, map, disk, resp, cli, served>>
NextMap == MapText
SpecMap == InitMap /\ [][NextMap]_vars

\* ------------------------------------------------------------------------
\* Properties
\* ------------------------------------------------------------------------
SealRoutes == {"seal", "seal/strict"}
InSeq(x, s) == \E i \in 1..Len(s) : s[i] = x
\* pub is the public half of the configured private key
MatchingKeys(priv, pub) == priv # NoKey /\ pub = PublicOf(priv)

C1_RoundTripStep ==
  /\ ( /\ resp'.route \in SealRoutes /\ resp'.status = 200
       /\ MatchingKeys(env.PRIVATE_KEY_PEM, env.PUBLIC_KEY_PEM) )
     => LET b == VerifyBody(map'[resp'.vin].sealed, env.PUBLIC_KEY_PEM)
        IN b.valid /\ b.reasons = <<>>
  /\ ( /\ resp.route \in SealRoutes /\ resp.status = 200
       /\ resp'.route = "verify" /\ resp'.vin = resp.vin
       /\ MatchingKeys(env.PRIVATE_KEY_PEM, env.PUBLIC_KEY_PEM) )
     => resp'.status = 200 /\ resp'.valid /\ resp'.reasons = <<>>
  /\ (resp'.route = "cli/seal" /\ resp'.status = 0 /\ MatchingKeys(cli.priv, cli.pub))
     => verifySealedPassport(cli'.out, cli.pub) = [valid |-> TRUE, reasons |-> <<>>]
  /\ ( /\ resp.route = "cli/seal" /\ resp.status = 0 /\ resp'.route = "cli/verify"
       /\ MatchingKeys(cli.priv, cli.pub) )
     => resp'.status = 0 /\ resp'.valid
\* C1: seal/verify round trip.  Whenever a draft is accepted for sealing
\* under a matching key pair, verifying the sealed result answers valid with
\* no reasons: for POST /passports/seal (and /seal/strict) the stored sealed
\* passport verifies, and a GET /verify that directly follows the seal of the
\* same VIN answers 200 valid; for the library, the output of
\* sealPassportDraft verifies under verifySealedPassport, and cli/verify run
\* directly after cli/seal exits 0.
C1_SealVerifyRoundTrip == [][C1_RoundTripStep]_vars
\* a GET /verify that found the sealed passport of VinA valid, signature
\* included, under a matching key pair
C1_Witness ==
  /\ resp.route = "verify" /\ resp.vin = VinA /\ resp.status = 200
  /\ resp.valid /\ resp.reasons = <<>>
  /\ MatchingKeys(env.PRIVATE_KEY_PEM, env.PUBLIC_KEY_PEM)
  /\ Path(map[VinA].sealed, "seal", "sig").t = "sig"

\* post is pre after the edit e of a property outside the seal block
EditedBy(pre, post, e) == CanTamper(pre, e) /\ post = Tamper(pre, e)
HashMatches(verdict) ==
  ~InSeq("hash_mismatch", verdict.reasons) /\ ~InSeq("hash mismatch", verdict.reasons)
\* what GET /verify and cli/verify answer is the verdict of their procedure
VerdictReported ==
  /\ (resp'.route = "verify" /\ resp'.status = 200)
     => LET b == VerifyBody(map[resp'.vin].sealed, env.PUBLIC_KEY_PEM)
        IN resp'.valid = b.valid /\ resp'.reasons = b.reasons
  /\ (resp'.route = "cli/verify" /\ resp'.status \in {0, 3})
     => LET r == verifySealedPassport(cli.out, cli.pub)
        IN resp'.valid = r.valid /\ resp'.reasons = r.reasons
C2_ServerDetects(mark) ==
  \A e \in TamperEdits :
    LET pre == VerifyBody(disk[VinA].sealed, env.PUBLIC_KEY_PEM)
        post == VerifyBody(disk'[VinA].sealed, env.PUBLIC_KEY_PEM)
    IN ( /\ process = "server" /\ disk[VinA].present
         /\ EditedBy(disk[VinA].sealed, disk'[VinA].sealed, e) /\ HashMatches(pre) )
       => ~post.valid /\ InSeq(mark, post.reasons)
C2_LibraryDetects(edits, mark) ==
  \A e \in edits :
    LET pre == verifySealedPassport(cli.out, cli.pub)
        post == verifySealedPassport(cli'.out, cli.pub)
    IN (process = "cli" /\ EditedBy(cli.out, cli'.out, e) /\ HashMatches(pre))
       => ~post.valid /\ InSeq(mark, post.reasons)
C2_LibraryFlags(edits) ==
  \A e \in edits :
    LET pre == verifySealedPassport(cli.out, cli.pub)
        post == verifySealedPassport(cli'.out, cli.pub)
    IN (process = "cli" /\ EditedBy(cli.out, cli'.out, e) /\ HashMatches(pre))
       => ~post.valid /\ ~HashMatches(post)
C2_LibraryOverlooks(edits) ==
  \A e \in edits :
    LET pre == verifySealedPassport(cli.out, cli.pub)
        post == verifySealedPassport(cli'.out, cli.pub)
    IN (process = "cli" /\ EditedBy(cli.out, cli'.out, e) /\ HashMatches(pre))
       => post = pre
\* C2 as amended: tamper sensitivity.  When a property of a sealed passport
\* outside its seal block is edited after sealing, GET /verify answers
\* valid = false with reason hash_mismatch for every such edit, a string
\* changed only by trailing whitespace and a number changed only in its
\* fourth decimal included.  verifySealedPassport answers valid = false with
\* reason "hash mismatch" when the edit changes the canonical form (lot_id
\* replaced); an edit that trimming or rounding to three decimals removes
\* leaves its verdict as it was.
C2_TamperDetected ==
  [][ /\ VerdictReported
      /\ C2_ServerDetects("hash_mismatch")
      /\ C2_LibraryDetects({"lot"}, "hash mismatch")
      /\ C2_LibraryOverlooks({"pad", "frac"}) ]_vars
\* GET /verify has reported hash_mismatch for a sealed passport whose lot_id
\* was only padded with a space in its file
C2_Witness ==
  /\ resp.route = "verify" /\ resp.status = 200 /\ ~resp.valid
  /\ InSeq("hash_mismatch", resp.reasons)
  /\ Padded(map[VinA].sealed)
  /\ Trim(Get(map[VinA].sealed, "lot_id").v) = Get(map[VinA].draft, "lot_id").v
\* C2 as stated: every edit outside the seal block, whitespace-only and
\* beyond-the-third-decimal edits included, makes verification answer
\* valid = false with a hash mismatch among the reasons, on the server and in
\* the library (whose reason reads "hash mismatch").
C2_AnyEditDetected ==
  [][C2_ServerDetects("hash_mismatch") /\ C2_LibraryFlags(TamperEdits)]_vars

MutationRoutes ==
  {"ingest", "intake/init", "intake/seed", "intake/tyres", "photos/upload", "photos/complete"}
\* the same content, whatever the order of the properties
ContentEq(a, b) == sortKeys(a) = sortKeys(b)
C3_MutationStep ==
  \A k \in StoreKeys :
    ( /\ resp'.route \in MutationRoutes /\ resp'.status = 200 /\ resp'.vin = k
      /\ map[k].sealed # Undef )
    => IF ContentEq(map'[k].draft, map[k].draft)
       THEN map'[k].sealed = map[k].sealed
       ELSE map'[k].sealed = Undef
C3_SealedMatchesDraft(m) ==
  \A k \in StoreKeys :
    (m[k].draft # Undef /\ m[k].sealed # Undef)
    => ContentEq(stripSeal(m[k].sealed), m[k].draft)
\* C3: a draft mutation invalidates the sealed copy.  When /ingest/dekra,
\* /intake/init, /intake/seed, /intake/tyres or a photo upload/complete
\* changes the content of the stored draft of a VIN that has a sealed copy,
\* the record holds no sealed copy afterwards, and the sealed copy stays as
\* it is when the content is unchanged; so in every state a record with both
\* a draft and a sealed copy has sealed-minus-seal equal in content to draft.
C3_DraftChangeDropsSealed == [][C3_MutationStep /\ C3_SealedMatchesDraft(map')]_vars

\* the answer of GET /verify against the stored sealed passport it was asked
\* about; noKeyReported(hasSig): when a missing public key is to be reported
C4_VerifyAnswer(noKeyReported(_)) ==
  (resp.route = "verify" /\ resp.status = 200)
  => LET sealed == map[resp.vin].sealed
         bytes == canonicalBytes(stripSeal(sealed))
         hashOk == Path(sealed, "seal", "hash") = sha256Hex(bytes)
         sig == Path(sealed, "seal", "sig")
         hasSig == Truthy(sig)
         pub == env.PUBLIC_KEY_PEM
         sigFailed == hasSig /\ pub # NoKey /\ ~SigMatches(bytes, sig, pub)
     IN /\ resp.valid <=> (hashOk /\ ~sigFailed)
        /\ InSeq("hash_mismatch", resp.reasons) <=> ~hashOk
        /\ InSeq("signature_invalid", resp.reasons) <=> sigFailed
        /\ InSeq("no_signature_present", resp.reasons) <=> ~hasSig
        /\ InSeq("no_public_key_configured", resp.reasons)
             <=> (pub = NoKey /\ noKeyReported(hasSig))
        /\ resp.hash = sha256Hex(bytes)
C4_WhenSigned(hasSig) == hasSig
C4_Always(hasSig) == TRUE
\* C4 as amended: GET /verify answers valid = true exactly when the hash
\* recomputed from the record without its seal equals seal.hash and the
\* signature check did not explicitly fail; hash_mismatch is a reason exactly
\* when the hashes differ, signature_invalid exactly when a present signature
\* fails under the configured public key, no_signature_present exactly when
\* seal.sig is absent or empty, and no_public_key_configured exactly when no
\* public key is configured and a signature is present.
C4_VerifyValidIff == C4_VerifyAnswer(C4_WhenSigned)
\* GET /verify of an unsigned sealed passport on a server without keys:
\* valid, the only reason being no_signature_present
C4_Witness ==
  /\ resp.route = "verify" /\ resp.status = 200 /\ resp.valid
  /\ resp.reasons = <<"no_signature_present">>
  /\ env.PUBLIC_KEY_PEM = NoKey
  /\ Path(map[resp.vin].sealed, "seal", "sig") = Str(<<>>)
\* C4 as stated: as above, but a missing public key adds
\* no_public_key_configured whether or not a signature is present.
C4_NoKeyAlwaysReported == C4_VerifyAnswer(C4_Always)

\* C5: the seal block is never part of the hashed and signed payload.  The
\* hash a seal route stores and the hash GET /verify recomputes are taken
\* over the canonical bytes of the record without its seal field, and
\* cli/seal (sealPassportDraft) given a record that already carries a seal
\* block seals it with the hash of the same record without that block.
C5_SealBlockNotHashed ==
  /\ (resp.route \in SealRoutes /\ resp.status = 200)
     => /\ resp.hash = sha256Hex(canonicalBytes(stripSeal(map[resp.vin].draft)))
        /\ Path(map[resp.vin].sealed, "seal", "hash") = resp.hash
  /\ (resp.route = "verify" /\ resp.status = 200)
     => resp.hash = sha256Hex(canonicalBytes(stripSeal(map[resp.vin].sealed)))
  /\ (resp.route = "cli/seal" /\ validateDraft(stripSeal(cli.in)))
     => /\ resp.status = 0
        /\ resp.hash = sha256Hex(canonicalizeLib(stripSeal(cli.in)))
        /\ Path(cli.out, "seal", "hash") = resp.hash

C6_IngestStep ==
  \A i \in IngestInputs :
    LET expectedVin == sanitizeVin(i[3])
        parsedVin == sanitizeVin(IF Truthy(i[1].vin) THEN i[1].vin ELSE Str(UnknownVin))
    IN IngestDekra(TRUE, i[1], i[2], i[3], Time1)
       => /\ (expectedVin # <<>> /\ parsedVin # expectedVin)
             => /\ resp'.status = 409 /\ resp'.error = "vin_mismatch"
                /\ map' = map /\ disk' = disk
          /\ resp'.status = 200
             => /\ resp'.vin = parsedVin
                /\ expectedVin # <<>> => parsedVin = expectedVin
                /\ Get(map'[parsedVin].draft, "vin") = Str(parsedVin)
                /\ \A k \in StoreKeys \ {parsedVin} : map'[k] = map[k] /\ disk'[k] = disk[k]
\* C6: ingestion rejects VIN mismatches instead of overwriting.  When
\* POST /ingest/dekra parses a VIN that differs from the expected VIN it
\* answers 409 vin_mismatch and leaves every stored record and file as it
\* was; an ingest that answers 200 wrote the record of the parsed VIN, which
\* is the expected VIN when one was given, and touched no other record.
C6_VinMismatchRejected == [][C6_IngestStep]_vars
\* a 409 vin_mismatch answered while the expected VIN has a stored draft and
\* the parsed VIN has no record
C6_Witness ==
  /\ resp.route = "ingest" /\ resp.status = 409 /\ resp.vin = VinA
  /\ map[VinA].draft # Undef
  /\ ~map[VinB].present

C7_SealStep ==
  /\ \A k \in StoreKeys :
       (resp'.route \in SealRoutes /\ resp'.vin = k /\ map[k].draft # Undef)
       => IF validateDraft(map[k].draft)
          THEN resp'.status = 200 => validateSealed(map'[k].sealed)
          ELSE /\ resp'.status \in {412, 422}
               /\ resp'.status = 422
                  => /\ resp'.error = "sealed_schema_invalid"
                     /\ DraftErrors(map[k].draft) \subseteq resp'.details
               /\ map' = map /\ disk' = disk
  /\ (resp'.route = "cli/seal" /\ ~validateDraft(cli.in))
     => /\ resp'.status # 0
        /\ resp'.details = DraftErrors(cli.in) /\ resp'.details # {}
        /\ cli' = cli
  /\ (process = "cli" /\ ~validateDraft(cli'.in))
     => LET r == sealPassportDraft(cli'.in, cli.priv, <<>>, Time1, 1)
        IN ~r.ok /\ r.sealed = Undef /\ r.errors = DraftErrors(cli'.in) /\ r.errors # {}
\* C7: sealing fails fast on invalid data.  POST /passports/seal and
\* /passports/seal/strict asked to seal a stored draft that fails schema
\* validation answer an error (422 with the violated constraints, or 412
\* not_ready) and leave the stored records and files unchanged, and what they
\* store on success is schema-valid; sealPassportDraft and cli/seal given an
\* invalid draft produce no sealed passport and return the validation errors.
C7_SealFailsFast == [][C7_SealStep]_vars
\* POST /passports/seal refused the stored draft of a three-character VIN
\* with the violated constraint, and the record has no sealed copy
C7_Witness ==
  /\ resp.route = "seal" /\ resp.vin = ShortVin /\ resp.status = 422
  /\ "vin" \in resp.details
  /\ map[ShortVin].draft # Undef /\ map[ShortVin].sealed = Undef
  /\ disk[ShortVin].sealed = Undef

\* C8: stored drafts never contain a seal block.  In every state the draft
\* of every record of the map, and of every file under data/, has no seal
\* property: the drafts written by ingestion and by the intake and photo
\* routes, and the draft upsertSealed derives from a sealed passport when the
\* record had none.
C8_DraftsCarryNoSeal ==
  \A k \in StoreKeys :
    /\ map[k].draft # Undef => IsObj(map[k].draft) /\ ~Has(map[k].draft, "seal")
    /\ disk[k].draft # Undef => IsObj(disk[k].draft) /\ ~Has(disk[k].draft, "seal")
\* upsertSealed has stored a sealed passport for a VIN that had no draft:
\* the record holds the sealed passport and the draft derived from it
C8_Witness ==
  /\ resp.route = "storage.upsertSealed" /\ resp.vin = VinB
  /\ Has(map[VinB].sealed, "seal")
  /\ map[VinB].draft = Del(map[VinB].sealed, "seal")
  /\ disk[VinB].draft = map[VinB].draft

C9_VerifyStep ==
  /\ resp'.route = "verify"
     => /\ map' = map /\ disk' = disk /\ env' = env
        /\ resp'.status = 200
           => LET b == VerifyBody(map[resp'.vin].sealed, env.PUBLIC_KEY_PEM)
              IN resp'.valid = b.valid /\ resp'.reasons = b.reasons /\ resp'.hash = b.hash
  /\ resp'.route = "cli/verify"
     => /\ cli' = cli
        /\ resp'.status \in {0, 3}
           => LET r == verifySealedPassport(cli.out, cli.pub)
              IN resp'.valid = r.valid /\ resp'.reasons = r.reasons
\* C9: verification never mutates stored state.  A GET /verify, whatever it
\* answers, leaves every stored record and file (sealed copy and seal block
\* included) and the configuration as they were, and its answer is the
\* verdict computed from the stored sealed passport and the public key
\* alone; cli/verify likewise leaves its files as they were and its verdict
\* is computed from the sealed file and the public key.
C9_VerifyLeavesStore == [][C9_VerifyStep]_vars
\* GET /verify found the stored sealed passport invalid, and the record and
\* its file still hold that sealed passport
C9_Witness ==
  /\ resp.route = "verify" /\ resp.status = 200 /\ ~resp.valid
  /\ Has(map[resp.vin].sealed, "seal")
  /\ disk[resp.vin].sealed = map[resp.vin].sealed

C10_ResealStep ==
  /\ (/\ resp.route \in SealRoutes /\ resp.status = 200
      /\ resp'.route \in SealRoutes /\ resp'.status = 200
      /\ resp'.vin = resp.vin)
     => resp'.hash = resp.hash
  /\ (resp'.route \in SealRoutes /\ resp'.status = 200)
     => /\ Path(map'[resp'.vin].sealed, "seal", "hash") = resp'.hash
        /\ sha256Hex(SealPayload(ReorderKeys(map'[resp'.vin].draft))) = resp'.hash
  /\ (/\ resp'.route = "cli/seal" /\ resp'.status = 0
      /\ Has(cli.out, "seal")
      /\ ContentEq(cli.in, Del(cli.out, "seal")))
     => Path(cli'.out, "seal", "hash") = Path(cli.out, "seal", "hash")
  /\ (resp'.route = "cli/seal" /\ resp'.status = 0)
     => sha256Hex(SealPayloadLib(ReorderKeys(cli'.in))) = resp'.hash
\* C10: sealing is idempotent per draft content.  A seal route that
\* succeeds directly after a successful seal of the same VIN answers the
\* same hash, whatever the time of sealing; cli/seal run on an input whose
\* content equals the content of the sealed file it wrote before writes
\* the same seal.hash, whatever the order of the input's properties and
\* whatever the signature's nonce; and the hash either one stores is the
\* hash of the same draft with its properties in the opposite order.
C10_SealIdempotent == [][C10_ResealStep]_vars
\* cli/seal has sealed an input whose properties were reordered since the
\* file was first read, and the stored hash is that of the sorted form
C10_Witness ==
  /\ resp.route = "cli/seal" /\ resp.status = 0
  /\ ~InSeq(cli.in, CliDrafts)
  /\ InSeq(ReorderKeys(cli.in), CliDrafts)
  /\ Path(cli.out, "seal", "hash") = sha256Hex(SealPayloadLib(ReorderKeys(cli.in)))

\* ---- the DTC classifier ----
\* The words of a text: its maximal runs of letters, digits and "_", in
\* upper case, each with whether only white space separates it from the
\* word before it.
RECURSIVE WordsFrom(_, _, _)
WordsFrom(t, i, spaced) ==
  IF i > Len(t) THEN <<>>
  ELSE IF IsWordChar(t[i])
       THEN LET j == CHOOSE x \in i..Len(t) :
                       /\ \A l \in i..x : IsWordChar(t[l])
                       /\ (x = Len(t) \/ ~IsWordChar(t[x + 1]))
            IN <<[w |-> toUpperCase(SubSeq(t, i, j)), spaced |-> spaced]>>
               \o WordsFrom(t, j + 1, TRUE)
       ELSE WordsFrom(t, i + 1, spaced /\ IsSpace(t[i]))
Words(t) == WordsFrom(t, 1, TRUE)
\* the text holds the words of phrase one after the other, white space between
PhraseIn(ws, phrase) ==
  \E k \in 1..(Len(ws) - Len(phrase) + 1) :
    \A n \in 1..Len(phrase) :
      /\ ws[k + n - 1].w = phrase[n]
      /\ (n > 1 => ws[k + n - 1].spaced)
ContainsPhrase(t, phrase) == PhraseIn(Words(t), phrase)
ContainsAny(t, phrases) ==
  LET ws == Words(t)
  IN \E ph \in phrases : PhraseIn(ws, ph)
NoFaultWordings ==
  { <<<<"N", "O">>, <<"D", "T", "C">>>>,
    <<<<"N", "O">>, <<"D", "T", "C", "S">>>>,
    <<<<"N", "O">>, <<"F", "A", "U", "L", "T">>>>,
    <<<<"N", "O">>, <<"F", "A", "U", "L", "T", "S">>>>,
    <<<<"N", "O">>, <<"E", "R", "R", "O", "R">>>>,
    <<<<"N", "O">>, <<"E", "R", "R", "O", "R", "S">>>>,
    <<<<"N", "O">>, <<"T", "R", "O", "U", "B", "L", "E">>, <<"C", "O", "D", "E">>>>,
    <<<<"N", "O">>, <<"T", "R", "O", "U", "B", "L", "E">>, <<"C", "O", "D", "E", "S">>>>,
    <<<<"N", "O">>, <<"D", "I", "A", "G", "N", "O", "S", "T", "I", "C">>, <<"T", "R", "O", "U", "B", "L", "E">>, <<"C", "O", "D", "E">>>>,
    <<<<"N", "O">>, <<"D", "I", "A", "G", "N", "O", "S", "T", "I", "C">>, <<"T", "R", "O", "U", "B", "L", "E">>, <<"C", "O", "D", "E", "S">>>>,
    <<<<"N", "O">>, <<"A", "C", "T", "I", "V", "E">>, <<"E", "R", "R", "O", "R">>, <<"M", "E", "S", "S", "A", "G", "E">>>>,
    <<<<"N", "O">>, <<"A", "C", "T", "I", "V", "E">>, <<"E", "R", "R", "O", "R">>, <<"M", "E", "S", "S", "A", "G", "E", "S">>>> }
DtcHeaders ==
  { <<<<"D", "I", "A", "G", "N", "O", "S", "T", "I", "C">>, <<"T", "R", "O", "U", "B", "L", "E">>, <<"C", "O", "D", "E">>>>,
    <<<<"D", "I", "A", "G", "N", "O", "S", "T", "I", "C">>, <<"T", "R", "O", "U", "B", "L", "E">>, <<"C", "O", "D", "E", "S">>>>,
    <<<<"D", "T", "C">>>>,
    <<<<"D", "T", "C", "S">>>>,
    <<<<"F", "A", "U", "L", "T">>, <<"C", "O", "D", "E">>>>,
    <<<<"F", "A", "U", "L", "T">>, <<"C", "O", "D", "E", "S">>>> }
RedWords ==
  { <<<<"M", "I", "L">>, <<"O", "N">>>>,
    <<<<"C", "U", "R", "R", "E", "N", "T">>>>,
    <<<<"A", "C", "T", "I", "V", "E">>>>,
    <<<<"P", "R", "E", "S", "E", "N", "T">>>>,
    <<<<"P", "E", "R", "M", "A", "N", "E", "N", "T">>>>,
    <<<<"S", "T", "O", "R", "E", "D">>>> }
\* the runs of letters and digits of the upper-cased text that have the
\* shape of a code: one of P, C, B, U and four hexadecimal digits
RECURSIVE CodeTokensFrom(_, _)
CodeTokensFrom(t, i) ==
  IF i > Len(t) THEN <<>>
  ELSE IF t[i] \in AlnumUpperChars
       THEN LET j == CHOOSE x \in i..Len(t) :
                       /\ \A l \in i..x : t[l] \in AlnumUpperChars
                       /\ (x = Len(t) \/ t[x + 1] \notin AlnumUpperChars)
                run == SubSeq(t, i, j)
                shaped == /\ Len(run) = 5
                          /\ run[1] \in {"P", "C", "B", "U"}
                          /\ \A l \in 2..5 : run[l] \in HexChars
            IN (IF shaped THEN <<run>> ELSE <<>>) \o CodeTokensFrom(t, j + 1)
       ELSE CodeTokensFrom(t, i + 1)
CodeTokens(t) == CodeTokensFrom(toUpperCase(t), 1)
\* each element once, at the place it first stands at
FirstOccurrences(items) ==
  LET keep == {i \in 1..Len(items) : \A j \in 1..(i - 1) : items[j] # items[i]}
      RECURSIVE pick(_)
      pick(i) == IF i > Len(items) THEN <<>>
                 ELSE (IF i \in keep THEN <<items[i]>> ELSE <<>>) \o pick(i + 1)
  IN pick(1)
Classified == scan.out # Undef

\* C11: DTC negation precedence.  For every text that contains a no-fault
\* phrase (no DTC, no fault codes, no trouble codes, no active error
\* messages, ...), extractDtc returns status green with no codes, also when
\* the text holds code-shaped tokens or red keywords.
C11_NegationWins ==
  (Classified /\ ContainsAny(scan.in, NoFaultWordings))
    => scan.out = [status |-> "green", codes |-> <<>>]
\* a text with "no active error messages", a code-shaped token and the red
\* keyword ACTIVE was classified green
C11_Witness ==
  /\ Classified
  /\ ContainsPhrase(scan.in, <<<<"N", "O">>, <<"A", "C", "T", "I", "V", "E">>, <<"E", "R", "R", "O", "R">>, <<"M", "E", "S", "S", "A", "G", "E", "S">>>>)
  /\ Len(CodeTokens(scan.in)) > 0
  /\ ContainsAny(scan.in, RedWords)
  /\ scan.out.status = "green"

\* C12: "not addressed" is never conflated with "clean".  When the text has
\* no no-fault phrase and no code token, extractDtc returns green exactly
\* when a DTC section header (diagnostic trouble codes, DTC(s), fault
\* codes) is present and n/a otherwise, with no codes; and n/a is returned
\* only with an empty code list and only for a text without header,
\* no-fault phrase and code token.
C12_NotAddressedIsNotClean ==
  Classified =>
    LET negated == ContainsAny(scan.in, NoFaultWordings)
        header == ContainsAny(scan.in, DtcHeaders)
        coded == Len(CodeTokens(scan.in)) > 0
    IN /\ (~negated /\ ~coded)
          => scan.out = [status |-> IF header THEN "green" ELSE "n/a", codes |-> <<>>]
       /\ scan.out.status = "n/a"
          => (scan.out.codes = <<>> /\ ~header /\ ~negated /\ ~coded)
\* a text that speaks of trouble codes without a header, a no-fault phrase
\* or a code was classified n/a
C12_Witness ==
  /\ Classified
  /\ ContainsPhrase(scan.in, <<<<"T", "R", "O", "U", "B", "L", "E">>, <<"C", "O", "D", "E", "S">>>>)
  /\ ContainsPhrase(scan.in, <<<<"E", "R", "R", "O", "R", "S">>>>)
  /\ scan.out.status = "n/a"

IsoRows ==
  << [first |-> 1, letters |-> <<"A", "B", "C", "D", "E", "F", "G", "H">>],
     [first |-> 1, letters |-> <<"J", "K", "L", "M", "N">>],
     [first |-> 7, letters |-> <<"P">>],
     [first |-> 9, letters |-> <<"R">>],
     [first |-> 2, letters |-> <<"S", "T", "U", "V", "W", "X", "Y", "Z">>] >>
IsoValue(c) ==
  IF c \in Digits THEN (CHOOSE i \in 1..10 : DigitChars[i] = c) - 1
  ELSE LET r == CHOOSE n \in 1..Len(IsoRows) :
                  \E i \in 1..Len(IsoRows[n].letters) : IsoRows[n].letters[i] = c
           i == CHOOSE x \in 1..Len(IsoRows[r].letters) : IsoRows[r].letters[x] = c
       IN IsoRows[r].first + i - 1
IsoWeights == <<8, 7, 6, 5, 4, 3, 2, 10, 0, 9, 8, 7, 6, 5, 4, 3, 2>>
RECURSIVE IsoSum(_, _)
IsoSum(v, n) == IF n = 0 THEN 0 ELSE IsoSum(v, n - 1) + IsoValue(v[n]) * IsoWeights[n]
IsoCheckChar(v) ==
  LET r == IsoSum(v, Len(v)) % 11
  IN IF r = 10 THEN "X" ELSE DigitChars[r + 1]
OverVinAlphabet(v) == \A i \in 1..Len(v) : v[i] \in VinAlphabet

IsoValid(v) == Len(v) = 17 /\ OverVinAlphabet(v) /\ IsoCheckChar(v) = v[9]
Among(x, items) == \E i \in 1..Len(items) : items[i] = x
\* C15: generic VIN selection order.  Over the list findVinCandidates
\* produces, findBestVinCandidate returns a checksum-valid candidate
\* whenever one exists; otherwise a 17-character candidate whenever one
\* exists (one with a wrong check digit is kept for this tier); otherwise
\* the longest candidate; and null only when there are no candidates.
C15_VinSelectionOrder ==
  scan.out # Undef =>
    LET cands == scan.out.candidates
        best == scan.out.best
        picked == best.t = "str" /\ Among(best.v, cands)
    IN /\ best = Null <=> Len(cands) = 0
       /\ IF \E i \in 1..Len(cands) : IsoValid(cands[i])
          THEN picked /\ IsoValid(best.v)
          ELSE IF \E i \in 1..Len(cands) : Len(cands[i]) = 17
          THEN picked /\ Len(best.v) = 17
          ELSE Len(cands) > 0
               => (picked /\ \A i \in 1..Len(cands) : Len(cands[i]) <= Len(best.v))
\* no candidate has 17 characters, a shorter one was found before a longer
\* one, and the longer one was picked
C15_Witness ==
  /\ scan.out # Undef
  /\ Len(scan.out.candidates) = 2
  /\ scan.out.best.t = "str"
  /\ Len(scan.out.best.v) = 12
  /\ VinHits(scan.in)[1] # scan.out.best.v

\* ---- licence-disc VIN path ----
NonIncreasing(scores) == \A i \in 1..Len(scores) : \A j \in i..Len(scores) : scores[i] >= scores[j]
\* C16: checksum validity is a hard filter in the licence-disc path.
\* Every candidate findVinFromLicenceDisc returns has exactly 17 characters
\* and a correct check digit, the list is in non-increasing score order,
\* and whenever /ocr/vin takes its VIN from the licence-disc method the
\* vinValid flag of the response is true.
C16_LicenceDiscOnlyValid ==
  scan.out # Undef =>
    LET disc == scan.out.licenceDiscCandidates
    IN /\ \A i \in 1..Len(disc) : Len(disc[i].vin) = 17 /\ IsoValid(disc[i].vin)
       /\ NonIncreasing([i \in 1..Len(disc) |-> disc[i].score])
       /\ scan.out.extractionMethod = "licence_disc"
            => /\ scan.out.vinValid
               /\ scan.out.vin.t = "str"
               /\ IsoValid(scan.out.vin.v)
\* the OCR lines hold a 17-character string with a wrong check digit next
\* to a valid VIN that two methods score differently
C16_Witness ==
  /\ scan.out # Undef
  /\ \E i \in 1..Len(scan.in) : scan.in[i].text = VinA
  /\ scan.out.extractionMethod = "licence_disc"
  /\ \E i, j \in 1..Len(scan.out.licenceDiscCandidates) :
        scan.out.licenceDiscCandidates[i].score > scan.out.licenceDiscCandidates[j].score

NoRepeat(items) == \A i, j \in 1..Len(items) : items[i] = items[j] => i = j
\* C17: VIN candidates are deduplicated by VIN string.  Neither the list
\* findVinFromLicenceDisc returns nor the candidates list of the /ocr/vin
\* response holds the same VIN twice, whichever methods found it.
C17_NoVinTwice ==
  scan.out # Undef =>
    /\ NoRepeat([i \in 1..Len(scan.out.licenceDiscCandidates) |->
                   scan.out.licenceDiscCandidates[i].vin])
    /\ NoRepeat(scan.out.candidates)

\* ---- odometer ----
SpeedWords == { <<"K", "M", "/", "H">>, <<"M", "P", "H">>, <<"K", "P", "H">>, <<"S", "P", "E", "E", "D">> }
\* one of the OCR words of the line is a speed unit or the word speed
SpeedLine(line) == \E k \in 1..Len(line.words) : toUpperCase(line.words[k]) \in SpeedWords
\* C18: speed-context exclusion.  No odometer candidate is derived from a
\* line that matches a speed pattern (km/h, mph, kph, speed) by any of the
\* three strategies, digit grouping over the OCR words included: when every
\* OCR line is such a line there are no candidates and no reading.
C18_SpeedLinesExcluded ==
  (scan.out # Undef /\ \A i \in 1..Len(scan.in) : SpeedLine(scan.in[i]))
    => (scan.out.pool = <<>> /\ scan.out.km = Null)

\* C19: odometer final selection.  The km of the response is the value of
\* a candidate with the highest score, and when several candidates share
\* the highest score it is the largest of their values.
C19_BestScoreThenValue ==
  (scan.out # Undef /\ Len(scan.out.pool) > 0) =>
    LET pool == scan.out.pool
        top == {i \in 1..Len(pool) : \A j \in 1..Len(pool) : pool[j].score <= pool[i].score}
    IN \E i \in top : /\ scan.out.km = IntNum(pool[i].value)
                       /\ \A j \in top : pool[j].value <= pool[i].value

\* C20: skipping the line and digit-grouping strategies is a pure
\* optimisation.  Whenever they are skipped because a text-pattern
\* candidate scored 28 or more, the km, the confidence and the top-5
\* candidate list of the response are those of the route that runs them
\* unconditionally.
C20_SkipChangesNothing ==
  (scan.out # Undef /\ ~scan.out.advancedHeuristicsRan) =>
    LET unconditional == OdometerResponse(scan.in, FALSE)
    IN /\ scan.out.km = unconditional.km
       /\ scan.out.confidence = unconditional.confidence
       /\ scan.out.candidates = unconditional.candidates

\* ---- no match ----
\* C21: no match is not an error and carries zero confidence.  When
\* /ocr/vin finds no VIN it answers ok with vin null, an empty candidate
\* list and confidence 0.
C21_NoMatchZeroConfidence ==
  (scan.out # Undef /\ scan.out.vin = Null) =>
    /\ scan.out.ok
    /\ scan.out.candidates = <<>>
    /\ scan.out.confidence = 0

\* ---- tyre depths ----
C22_Within(x) ==
  \/ x = Null
  \/ /\ x.t = "num"
     /\ x.v.m >= 0
     /\ x.v.m < 20 * Milli \/ (x.v.m = 20 * Milli /\ x.v.e = 0)
C22_Bounded(draft) ==
  \A i \in 1..Len(TyreKeys) : C22_Within(Path(draft, "tyres_mm", TyreKeys[i]))
C22_TyresStep ==
  /\ \A i \in IngestInputs :
       IngestDekra(TRUE, i[1], i[2], i[3], Time1)
       => /\ C22_Bounded(mapToPassportDraft(i[1], i[2].lot_id, i[2].dekra_url, Undef, Time1))
          /\ resp'.status = 200 => C22_Bounded(map'[resp'.vin].draft)
  /\ \A t \in TyreBodies :
       IntakeTyres(Str(VinA), t)
       => IF \A i \in 1..Len(TyreKeys) : C22_Within(Get(t, TyreKeys[i]))
          THEN resp'.status = 200 => C22_Bounded(map'[VinA].draft)
          ELSE resp'.status = 400 /\ map' = map /\ disk' = disk
\* C22: tyre depths stay within bounds.  Every draft mapToPassportDraft
\* produces, and every draft POST /intake/tyres stores, has each of
\* tyres_mm.fl, fr, rl, rr null or a number from 0 to 20: an extracted depth
\* out of range is clamped, and a submitted depth out of range is answered
\* 400 with the store left as it was.
C22_TyreDepthsBounded == [][C22_TyresStep]_vars
\* an ingest has stored a draft whose extracted depth of 25 mm was clamped
\* to 20, and the last request, a tyre intake, left that draft in place
C22_Witness ==
  /\ resp.route = "intake/tyres" /\ resp.status = 400
  /\ resp.error = "invalid_tyre_measurements"
  /\ map[VinA].draft # Undef
  /\ Path(map[VinA].draft, "tyres_mm", "fl") = IntNum(20)

\* ---- repeated extraction ----
\* C23: extraction is stateless across calls.  In every sequence of
\* extractDtc calls, whatever texts come in between, two calls with the same
\* text give the same status and the same code list, which are those of a
\* first call; RE_DTC is left with lastIndex 0 after every call.
C23_StatelessAcrossCalls ==
  /\ scan.lastIndex = 0
  /\ \A i \in 1..Len(scan.in) :
       /\ scan.out[i] = extractDtc(scan.in[i])
       /\ \A j \in 1..Len(scan.in) : scan.in[i] = scan.in[j] => scan.out[i] = scan.out[j]
\* a text with two codes was scanned, then a text with another answer, then
\* the first text again
C23_Witness ==
  /\ Len(scan.in) = 3
  /\ scan.in[1] = scan.in[3] /\ scan.in[2] # scan.in[1]
  /\ Len(scan.out[1].codes) = 2
  /\ scan.out[2] # scan.out[1]

\* ---- canonical form and order ----
\* equal but for the order of object properties, at every depth
RECURSIVE C24_SameUpToKeys(_, _)
C24_SameUpToKeys(a, b) ==
  /\ a.t = b.t
  /\ CASE a.t = "obj" ->
            /\ {a.v[i].k : i \in 1..Len(a.v)} = {b.v[i].k : i \in 1..Len(b.v)}
            /\ Len(a.v) = Len(b.v)
            /\ \A i \in 1..Len(a.v) : C24_SameUpToKeys(a.v[i].v, Get(b, a.v[i].k))
       [] a.t = "arr" ->
            /\ Len(a.v) = Len(b.v)
            /\ \A i \in 1..Len(a.v) : C24_SameUpToKeys(a.v[i], b.v[i])
       [] OTHER -> a = b
\* equal but for the order of object properties and of array elements
RECURSIVE C24_SameUpToOrder(_, _)
C24_SameUpToOrder(a, b) ==
  /\ a.t = b.t
  /\ CASE a.t = "obj" ->
            /\ {a.v[i].k : i \in 1..Len(a.v)} = {b.v[i].k : i \in 1..Len(b.v)}
            /\ Len(a.v) = Len(b.v)
            /\ \A i \in 1..Len(a.v) : C24_SameUpToOrder(a.v[i].v, Get(b, a.v[i].k))
       [] a.t = "arr" ->
            /\ Len(a.v) = Len(b.v)
            /\ \E p \in Permutations(1..Len(a.v)) :
                 \A i \in 1..Len(a.v) : C24_SameUpToOrder(a.v[i], b.v[p[i]])
       [] OTHER -> a = b
\* the value with its strings trimmed and its numbers rounded to 3 decimals
RECURSIVE C24_Normal(_)
C24_Normal(x) ==
  CASE x.t = "obj" -> Obj(Tuple([i \in 1..Len(x.v) |-> KV(x.v[i].k, C24_Normal(x.v[i].v))]))
    [] x.t = "arr" -> Arr(Tuple([i \in 1..Len(x.v) |-> C24_Normal(x.v[i])]))
    [] x.t = "str" ->
         Str(SubSeq(x.v,
                    CHOOSE i \in 1..(Len(x.v) + 1) :
                      /\ \A j \in 1..(i - 1) : x.v[j] = " "
                      /\ i <= Len(x.v) => x.v[i] # " ",
                    Len(x.v)))
    [] x.t = "num" -> Num(IF x.v.e >= 5 THEN x.v.m + 1 ELSE x.v.m, 0)
    [] OTHER -> x
C24_KeyOrderPart ==
  (scan.out # Undef /\ C24_SameUpToKeys(scan.in[1], scan.in[2]))
  => /\ scan.out.lib[1] = scan.out.lib[2]
     /\ scan.out.server[1] = scan.out.server[2]
C24_ArrayOrderOnly ==
  /\ scan.out # Undef
  /\ C24_SameUpToOrder(scan.in[1], scan.in[2])
  /\ ~C24_SameUpToKeys(scan.in[1], scan.in[2])
\* C24 as stated: values equal but for key order canonicalize to the same
\* string, and values that differ only in array order canonicalize
\* differently, under the library's canonicalize and under the server's.
C24_ArrayOrderAlwaysShows ==
  /\ C24_KeyOrderPart
  /\ C24_ArrayOrderOnly
     => /\ scan.out.lib[1] # scan.out.lib[2]
        /\ scan.out.server[1] # scan.out.server[2]
\* C24, amended: values equal but for key order, at any depth, canonicalize
\* to the same string.  Values that differ only in array order canonicalize
\* differently under the server's canonicalize; under the library's they do
\* exactly when they still differ once strings are trimmed and numbers
\* rounded to three decimals.
C24_CanonicalDeterminism ==
  /\ C24_KeyOrderPart
  /\ C24_ArrayOrderOnly
     => /\ scan.out.server[1] # scan.out.server[2]
        /\ scan.out.lib[1] # scan.out.lib[2]
           <=> ~C24_SameUpToKeys(C24_Normal(scan.in[1]), C24_Normal(scan.in[2]))
\* two values, an array in an object, that differ in key order and in the
\* order of "a" and " a" in the array: one library string, two server texts
C24_Witness ==
  /\ scan.out # Undef
  /\ scan.in[1] = Obj(<<KV("fl", Arr(<<Str(<<"a">>), Str(<<" ", "a">>)>>)), KV("fr", IntNum(1))>>)
  /\ scan.in[2] = Obj(<<KV("fr", IntNum(1)), KV("fl", Arr(<<Str(<<" ", "a">>), Str(<<"a">>)>>))>>)
  /\ scan.out.lib[1] = scan.out.lib[2]
  /\ scan.out.server[1] # scan.out.server[2]

\* ---- the reference report ----
C25_Has(n) == \E i \in 1..Len(scan.in) : scan.in[i] = n
C25_Tyres(fl, fr, rl, rr) ==
  Get(scan.out, "tyres_mm") = Obj(<<KV("fl", fl), KV("fr", fr), KV("rl", rl), KV("rr", rr)>>)
C25_Green ==
  Get(scan.out, "dtc") = Obj(<<KV("status", Str(<<"green">>)), KV("codes", Arr(<<>>))>>)
C25_Scenario == scan.in = <<2, 3, 4, 6, 8>> /\ scan.out # Undef
\* C25 as stated: the five-line reference text maps to VIN
\* WDD2040082R088866, which passes the checksum validator, odometer 238574,
\* tyres {fl: 1, fr: 0, rl: 2, rr: 2} and DTC {status: green, codes: []}.
C25_ReferenceScenario ==
  C25_Scenario
  => /\ Get(scan.out, "vin") = Str(VinA) /\ isValidVin(VinA)
     /\ Path(scan.out, "odometer", "km") = IntNum(238574)
     /\ C25_Tyres(IntNum(1), IntNum(0), IntNum(2), IntNum(2))
     /\ C25_Green
\* C25, amended: the five-line reference text maps to VIN
\* WDD2040082R088866, which the checksum validator rejects, odometer 238574,
\* tyres all null and DTC {status: green, codes: []}; the depths 1, 0, 2, 2
\* are read only when a tyre heading line comes before the FL line, as in
\* the sample report of the test.  For every text made of the report's
\* lines: the VIN line gives the VIN, the Km Reading line the odometer, a
\* line with the no-fault phrase the green status.
C25_ReferenceMapping ==
  scan.out # Undef
  => /\ Get(scan.out, "vin") = (IF C25_Has(3) THEN Str(VinA) ELSE Str(UnknownVin))
     /\ ~isValidVin(Get(scan.out, "vin").v)
     /\ Path(scan.out, "odometer", "km") = (IF C25_Has(4) THEN IntNum(238574) ELSE Null)
     /\ IF C25_Has(5) /\ C25_Has(6)
        THEN C25_Tyres(IntNum(1), IntNum(0), IntNum(2), IntNum(2))
        ELSE C25_Tyres(Null, Null, Null, Null)
     /\ IF C25_Has(7) \/ C25_Has(8) THEN C25_Green ELSE Get(scan.out, "dtc") = Undef
\* the reference text has been mapped: no depth was read
C25_Witness == C25_Scenario /\ C25_Tyres(Null, Null, Null, Null) /\ C25_Green

\* ---- readiness ----
C26_HasItem(draft, role) ==
  \E i \in 1..Len(ArrayOf(Path(draft, "images", "items"))) :
    Get(Path(draft, "images", "items").v[i], "role") = role
C26_Lacking(draft) ==
  SelectSeq(ArrayOf(Path(draft, "images", "required")), LAMBDA role : ~C26_HasItem(draft, role))
C26_Ready(draft) ==
  /\ Path(draft, "dekra", "url").t = "str" /\ Path(draft, "dekra", "url").v # <<>>
  /\ Path(draft, "odometer", "km").t = "num"
  /\ Len(C26_Lacking(draft)) = 0
RECURSIVE C26_List(_)
C26_List(roles) ==
  IF Len(roles) = 0 THEN ""
  ELSE IF Len(roles) = 1 THEN roles[1].v[1]
  ELSE roles[1].v[1] \o "," \o C26_List(Tail(roles))
C26_Names(reasons, draft) ==
  /\ InSeq("missing_dekra_url", reasons) <=> Path(draft, "dekra", "url").t # "str"
  /\ InSeq("missing_odometer_km", reasons) <=> Path(draft, "odometer", "km").t # "num"
  /\ Len(C26_Lacking(draft)) > 0
     => InSeq("missing_photos:" \o C26_List(C26_Lacking(draft)), reasons)
C26_StrictStep ==
  (SealStrict(Str(VinA), FALSE, Time1) /\ map[VinA].draft # Undef)
  => IF C26_Ready(map[VinA].draft)
     THEN resp'.status = 200 => Del(map'[VinA].sealed, "seal") = map[VinA].draft
     ELSE /\ resp'.status = 412 /\ resp'.error = "not_ready"
          /\ C26_Names(resp'.reasons, map[VinA].draft)
          /\ map' = map /\ disk' = disk
\* C26: strict sealing enforces readiness.  Without force, POST
\* /passports/seal/strict stores a sealed record only when the draft has a
\* DEKRA url, an odometer km that is not null and an image item for every
\* required role; otherwise it answers 412 not_ready, its reasons name what
\* is missing, each missing role included, and map and disk stay as they
\* were.
C26_StrictNeedsReadiness == [][C26_StrictStep]_vars
\* a 412 for a draft that has its url and km and the first required photo,
\* and lacks the second
C26_Witness ==
  /\ resp.route = "seal/strict" /\ resp.status = 412
  /\ resp.reasons = <<"missing_photos:tyre_fl">>
  /\ map[VinA].sealed = Undef
\* C30: strict sealing agrees with the intake checklist.  Whenever POST
\* /passports/seal/strict without force seals a VIN, the checklist of the
\* record as it was just before reports ready = true.
C30_StrictAgreesWithChecklist ==
  [][(SealStrict(Str(VinA), FALSE, Time1) /\ resp'.status = 200)
     => ChecklistOf(map[VinA]).ready]_vars

\* ---- C27, C28: requests in flight ----
C27_Roles == RolesPresent(ArrayOf(Path(map[VinA].draft, "images", "items")))
C27_Kept(f) ==
  IF f.kind = "photo" THEN Get(f.arg, "role") \in C27_Roles
  ELSE Get(map[VinA].draft, "tyres_mm") \in FlightTyres
C27_AllAnswered == \A id \in 1..MaxFlights : scan.flight[id].pc \in {"idle", "ok"}
\* C27: once every request on the VIN that was started has answered ok, the
\* stored draft holds the photo of every upload and the depths of a tyre
\* entry, however the storage.get and storage.upsertDraft steps of the
\* requests interleaved
C27_NoLostUpdate ==
  C27_AllAnswered =>
    \A id \in 1..MaxFlights : scan.flight[id].pc = "ok" => C27_Kept(scan.flight[id])

\* C28: once every upsert for the VIN has completed, data/<VIN>.json holds
\* the record of the in-memory map, however the writes and renames of the
\* temporary files interleaved
C28_DiskMatchesMemory ==
  C27_AllAnswered => disk[VinA] = FileOf(map[VinA])

\* ---- C29: the API key ----
C29_Keyless == env.API_KEY # <<>> /\ served' = served + 1 /\ scan'.key # Str(env.API_KEY)
\* C29: with API_KEY configured, a request that does not carry the key is
\* answered 401 and changes neither the map nor the files, under the API
\* prefix and without it
C29_KeyEnforced ==
  [][C29_Keyless => (resp'.status = 401 /\ map' = map /\ disk' = disk)]_vars

====
